---- MODULE Spec2Model ----
(***************************************************************************)
(* Remote-TLS session client of witness-sdk:                               *)
(*   makeAPITLSClient        (src/src/window-rpc/utils.ts, lines 104-514)  *)
(*   generateProviderReceipt (src/src/window-rpc/utils.ts, lines 536-681)  *)
(* A step of the model is one run of JavaScript code between two awaits.   *)
(* The relay, the target server and the TLS engine are the environment.    *)
(***************************************************************************)
EXTENDS Integers, Sequences, FiniteSets, TLC

\* ---------------------------------------------------------------- bounds
\* longest request buffer handed to write()
MaxLen == 3
\* most RedactedSlices handed to one write()
MaxSlices == 2
\* most application-data records the server sends
MaxServerRecords == 2
\* most slices the response-redaction function returns
MaxResponseSlices == 1
\* most progress reports of the reveal preparation
MaxProofs == 1
MaxCancels == 2
MaxSelections == 2
MaxNormalisations == 2
MaxMarkers == 2

\* ------------------------------------------------------------- constants
\* filler byte written over a redacted position ('*')
REDACTION_CHAR_CODE == 42

CLIENT == "TRANSCRIPT_MESSAGE_SENDER_TYPE_CLIENT"
SERVER == "TRANSCRIPT_MESSAGE_SENDER_TYPE_SERVER"

\* trailing content-type byte of a TLS1.3 inner plaintext
ContentTypeByte(contentType) ==
    IF contentType = "APPLICATION_DATA" THEN <<23>> ELSE <<22>>

\* bytes of the records the TLS engine and the server produce themselves
HandshakeBytes == <<101>>
KeyUpdateBytes == <<102>>
\* the first record of the response holds two bytes, a later one a byte
ResponseBytes(index, first) ==
    IF first THEN <<200 + index, 220 + index>> ELSE <<200 + index>>

\* ------------------------------------------------------- byte sequences
Min(a, b) == IF a < b THEN a ELSE b
Max(a, b) == IF a > b THEN a ELSE b

\* Uint8Array.prototype.slice(from, to) on 0-based offsets
Slice(arr, from, to) ==
    SubSeq(arr, Min(from, Len(arr)) + 1, Min(to, Len(arr)))

\* Uint8Array.prototype.slice(0, -1)
DropLast(arr) == SubSeq(arr, 1, Len(arr) - 1)

InSlice(pos, s) == s.fromIndex <= pos /\ pos < s.toIndex

\* 0-based offset pos lies inside one of the slices
InSomeSlice(pos, slices) ==
    \E k \in 1..Len(slices) : InSlice(pos, slices[k])

\* redactSlices(data, slices): every position of a slice holds the filler
redactSlices(arr, slices) ==
    [p \in 1..Len(arr) |->
        IF InSomeSlice(p - 1, slices) THEN REDACTION_CHAR_CODE ELSE arr[p]]

RECURSIVE Concat(_)
Concat(seqs) ==
    IF seqs = <<>> THEN <<>> ELSE Head(seqs) \o Concat(Tail(seqs))

Range(f) == {f[x] : x \in DOMAIN f}

\* ------------------------------------------------------------- requests
ArraySlices(n) ==
    {[fromIndex |-> f, toIndex |-> t] : f \in 0..n, t \in 0..n}

\* a RedactedSlice is a range [fromIndex, toIndex)
RedactedSlices(n) == {s \in ArraySlices(n) : s.fromIndex <= s.toIndex}

SliceLists(n, most) == UNION {[1..k -> RedactedSlices(n)] : k \in 0..most}

\* disjoint ascending slices
Ascending(slices) ==
    \A k \in 1..Len(slices) - 1 : slices[k].toIndex <= slices[k + 1].fromIndex

\* a buffer whose byte at offset p is p + 1: a byte names its position
Buffer(n) == [p \in 1..n |-> p]

SecretPositions(arr, slices) ==
    {p \in 1..Len(arr) : InSomeSlice(p - 1, slices)}

\* the buffer of the second session: other bytes at the positions of mask
TwinBuffer(arr, mask) ==
    [p \in 1..Len(arr) |-> IF p \in mask THEN arr[p] + 10 ELSE arr[p]]

\* -------------------------------------------------------------- records
NoReveal == [type |-> "none", redactedPlaintext |-> <<>>]
RevealComplete == [type |-> "complete", redactedPlaintext |-> <<>>]
RevealZk(redacted) == [type |-> "zk", redactedPlaintext |-> redacted]

\* CompleteTLSPacket: { packet, ctx, sender, index, reveal? }
Packet(sender, ctxType, contentType, header0, plaintext, index) ==
    [sender |-> sender, type |-> ctxType, contentType |-> contentType,
     header0 |-> header0, plaintext |-> plaintext, index |-> index,
     reveal |-> NoReveal]

\* the ctx.plaintext the TLS engine reports for a record it encrypted
\* or decrypted: TLS1.3 appends the content-type byte
CtxPlaintext(version, contentType, bytes) ==
    IF version = "TLS1_3" THEN bytes \o ContentTypeByte(contentType) ELSE bytes

\* an encrypted record of the negotiated version
CipherRecord(sender, version, contentType, bytes) ==
    Packet(sender, "ciphertext",
           IF version = "TLS1_3" THEN contentType ELSE "undefined",
           IF version = "TLS1_3" \/ contentType = "APPLICATION_DATA"
               THEN "WRAPPED_RECORD" ELSE "HELLO",
           CtxPlaintext(version, contentType, bytes), -1)

PlainRecord(sender, bytes) ==
    Packet(sender, "plaintext", "undefined", "HELLO", bytes, -1)

\* ---------------------------------------------------------------- state
VARIABLES
    \* createRequest's result: request.data and request.redactions
    data,
    redactedSections,
    \* the request buffer of the second session run in lockstep
    twinData,
    \* "undefined" or "function": provider.getResponseRedactions
    redactResponse,
    \* the option redactionMode of generateProviderReceipt, handed to
    \* makeAPITLSClient as defaultWriteRedactionMode: "undefined" or a mode
    redactionMode,
    \* the provider parameters of the caller, what normaliseParamsToV2 has
    \* made of them, and the number of its calls
    params,
    paramsV2,
    normalisations,
    \* what the redaction function returned when finish() called it
    responseSlices,
    \* closure state of makeAPITLSClient
    sessionId,
    pullFromSessionAbort,
    metadata,
    defaultWriteRedactionMode,
    onHandshake,
    allPackets,
    \* allPackets of the second session
    twinPackets,
    \* the TLS engine: negotiated version, handshake done, ended, key epoch
    tls,
    \* the in-flight pushToSession call of the engine's write callback
    push,
    \* the relay: next transcript index, session closed, what the server sent
    relay,
    \* elements of the pull stream not yet consumed by the pull loop
    stream,
    \* position of every async function, the error each threw, and the
    \* locals of write()
    pc,
    thrown,
    w,
    \* the element the pull loop is processing
    pulled,
    \* generateProviderReceipt: the waitForAllData promise, the 100 ms timer,
    \* the steps handed to onStep and the settled result
    waitForAllData,
    timer,
    resParser,
    steps,
    result,
    \* every call of tls.end(error), in order
    tlsEnds

vars == <<data, redactedSections, twinData, redactResponse, redactionMode,
          params, paramsV2, normalisations, responseSlices,
          sessionId, pullFromSessionAbort, metadata, defaultWriteRedactionMode,
          onHandshake, allPackets, twinPackets, tls, push, relay, stream, pc,
          thrown, w, pulled, waitForAllData, timer, resParser, steps, result, tlsEnds>>

request == <<data, redactedSections, twinData, redactResponse, redactionMode,
             params, paramsV2, normalisations>>
transcript == <<allPackets, twinPackets>>
receipt == <<waitForAllData, timer, resParser, steps, result, thrown>>
client == <<sessionId, pullFromSessionAbort, metadata,
            defaultWriteRedactionMode, onHandshake>>

NoPush == [st |-> "idle"]
NoError == "undefined"

\* --------------------------------------------------- transcript helpers
\* a getLastBlock that takes the last record, whoever sent it
getLastBlockOfAny(packets, sender) == Len(packets)

\* getLastBlock(sender): position of the sender's last record, 0 if none
getLastBlock(packets, sender) ==
    LET own == {i \in 1..Len(packets) : packets[i].sender = sender}
    IN  IF own = {} THEN 0 ELSE CHOOSE i \in own : \A j \in own : j <= i

isApplicationData(packet, version) ==
    /\ packet.type = "ciphertext"
    /\ \/ packet.contentType = "APPLICATION_DATA"
       \/ /\ packet.header0 = "WRAPPED_RECORD"
          /\ version = "TLS1_2"

\* allPackets.push(pkt), with pkt.index = index
PushPacket(packets, pkt, index) ==
    Append(packets, [pkt EXCEPT !.index = index])

SetReveal(packets, i, reveal) == [packets EXCEPT ![i].reveal = reveal]

\* --------------------------------------------------------- the promises
Pending == [st |-> "pending", error |-> NoError]
Resolved == [st |-> "resolved", error |-> NoError]
Rejected(err) == [st |-> "rejected", error |-> err]

\* endedHttpRequest(err): settles waitForAllData, once
endedHttpRequest(promise, err) ==
    IF promise.st # "pending" THEN promise
    ELSE IF err # NoError THEN Rejected(err) ELSE Resolved

\* Promise.race of connect(): the first of evPromise and onHandshake wins
SettleRace(p, how) == [p EXCEPT !.connect = IF @ = "race" THEN how ELSE @]

\* a tls.end whose onTlsEnd does not settle the wait for the response
TlsEndUnannounced(err) ==
    /\ tls' = [tls EXCEPT !.ended = TRUE]
    /\ tlsEnds' = Append(tlsEnds, err)
    /\ waitForAllData' = waitForAllData

\* tls.end(error): the engine stops and calls onTlsEnd(error)
TlsEnd(err) ==
    /\ tls' = [tls EXCEPT !.ended = TRUE]
    /\ tlsEnds' = Append(tlsEnds, err)
    /\ waitForAllData' = endedHttpRequest(waitForAllData, err)

\* ------------------------------------------------------------ the relay
\* the relay opens the pull stream with the readiness marker, as soon as it
\* has the pullFromSession call: before or after the client starts to listen
RelayReady ==
    /\ relay.srv = "new"
    /\ relay' = [relay EXCEPT !.srv = "ready"]
    /\ stream' = Append(stream, [kind |-> "ready", index |-> 0,
                                 version |-> "undefined", last |-> FALSE])
    /\ UNCHANGED <<request, responseSlices, client, transcript, tls, push,
                   pc, w, pulled, receipt, tlsEnds>>

\* a relay that repeats the readiness marker before it has the client's
\* first record
RelayReadyAgain ==
    /\ relay.srv = "ready"
    /\ stream = <<>>
    /\ tls.started < MaxMarkers
    /\ stream' = <<[kind |-> "ready", index |-> 0,
                    version |-> "undefined", last |-> FALSE]>>
    /\ UNCHANGED <<request, responseSlices, client, transcript, tls, push,
                   relay, pc, w, pulled, receipt, tlsEnds>>

\* an element of the pull stream; of the response's records it tells
\* which is the first and whether it completes the HTTP response
ServerElement(kind, index, version, last) ==
    [kind |-> kind, index |-> index, version |-> version, last |-> last,
     first |-> FALSE]

\* the server answers the ClientHello; a TLS1.3 server sends its whole flight
ServerHello ==
    /\ relay.srv = "hello"
    /\ ~relay.closed
    /\ \E v \in {"TLS1_3", "TLS1_2"} :
        /\ stream' = stream
              \o <<ServerElement("sh", relay.nextIndex, v, FALSE)>>
              \o (IF v = "TLS1_3"
                  THEN <<ServerElement("sfin", relay.nextIndex + 1, v, FALSE)>>
                  ELSE <<>>)
        /\ relay' = [relay EXCEPT
              !.srv = "flight", !.version = v,
              !.nextIndex = @ + (IF v = "TLS1_3" THEN 2 ELSE 1)]
    /\ UNCHANGED <<request, responseSlices, client, transcript, tls, push,
                   pc, w, pulled, receipt, tlsEnds>>

\* a TLS1.2 server finishes the handshake after the client's Finished
ServerFinished ==
    /\ relay.srv = "finished"
    /\ ~relay.closed
    /\ stream' = Append(stream,
           ServerElement("sfin", relay.nextIndex, relay.version, FALSE))
    /\ relay' = [relay EXCEPT !.srv = "established", !.nextIndex = @ + 1]
    /\ UNCHANGED <<request, responseSlices, client, transcript, tls, push,
                   pc, w, pulled, receipt, tlsEnds>>

\* generateProviderReceipt has not settled
Running == pc.gpr \notin {"returned", "rejected"}

\* the server sends one application-data record of its response; last says
\* that the record completes the HTTP response
SendResponseRecord(last) ==
    /\ Running
    /\ stream = <<>>
    /\ relay.srv = "established"
    /\ ~relay.closed
    /\ relay.appReceived > 0
    /\ relay.sent < MaxServerRecords
    /\ stream' = Append(stream,
            [ServerElement("app", relay.nextIndex, relay.version, last)
                EXCEPT !.first = (relay.sent = 0)])
    /\ relay' = [relay EXCEPT !.sent = @ + 1, !.nextIndex = @ + 1]
    /\ UNCHANGED <<request, responseSlices, client, transcript, tls, push,
                   pc, w, pulled, receipt, tlsEnds>>

\* the server answers at any time after the first request record
ServerRespond == \E last \in BOOLEAN : SendResponseRecord(last)

\* the server answers once the whole request is written, in one record
ServerRespondAfterRequest ==
    /\ pc.gpr = "waiting"
    /\ relay.sent = 0
    /\ SendResponseRecord(TRUE)

\* the relay closes the session: the pull stream ends, with or without error
RelayEndStream ==
    /\ Running
    /\ stream = <<>>
    /\ relay.srv \notin {"idle", "new"}
    /\ ~relay.closed
    /\ \E kind \in {"end", "error"} :
        stream' = Append(stream,
            ServerElement(kind, relay.nextIndex, "undefined", FALSE))
    /\ relay' = [relay EXCEPT !.closed = TRUE]
    /\ UNCHANGED <<request, responseSlices, client, transcript, tls, push,
                   pc, w, pulled, receipt, tlsEnds>>

\* ------------------------------------------- the engine's write callback
SessionClosed == "FAILED_PRECONDITION: session is closed"
RelayFailure == "UNAVAILABLE: relay error"

\* write(packet, ctx) of makeTLSClient's options: client.pushToSession(req)
\* is in flight; a and b are the records of the two sessions
StartPush(owner, kind, a, b) ==
    [st |-> "inflight", owner |-> owner, kind |-> kind, a |-> a, b |-> b,
     error |-> NoError]

\* what the relay learns from a pushed record
RelayReceive(r, kind) ==
    [r EXCEPT
        !.nextIndex = @ + 1,
        !.srv = IF kind = "hello" THEN "hello"
                ELSE IF kind = "finished"
                     THEN (IF r.version = "TLS1_3" THEN "established"
                           ELSE "finished")
                ELSE @,
        !.appReceived = IF kind = "app" THEN @ + 1 ELSE @]

\* the index the relay's response carries for a pushed record
ResponseIndex(r) == r.nextIndex

\* pushToSession returns: the record is appended with res.index
PushToSessionReturn ==
    /\ push.st = "inflight"
    /\ ~relay.closed
    /\ allPackets' = PushPacket(allPackets, push.a, ResponseIndex(relay))
    /\ twinPackets' = PushPacket(twinPackets, push.b, ResponseIndex(relay))
    /\ relay' = RelayReceive(relay, push.kind)
    /\ push' = IF push.owner = "startHandshake" THEN NoPush
               ELSE [push EXCEPT !.st = "returned"]
    /\ UNCHANGED <<request, responseSlices, client, tls, stream, pc, w,
                   pulled, receipt, tlsEnds>>

\* pushToSession throws: nothing is appended
PushToSessionThrow ==
    /\ push.st = "inflight"
    /\ push' = IF push.owner = "startHandshake" THEN NoPush
               ELSE [push EXCEPT
                       !.st = "failed",
                       !.error = IF relay.closed THEN SessionClosed
                                 ELSE RelayFailure]
    /\ UNCHANGED <<request, responseSlices, client, transcript, tls, relay,
                   stream, pc, w, pulled, receipt, tlsEnds>>

\* ------------------------------------------------------- the pull loop
\* onHandshake() without its test of the TLS version
HandshakeDoneKeepsMode(settled) ==
    /\ metadata' = [version |-> tls.version]
    /\ tls' = [tls EXCEPT !.handshakeDone = TRUE]
    /\ defaultWriteRedactionMode' = defaultWriteRedactionMode
    /\ pc' = IF onHandshake = "set" THEN SettleRace(settled, "race-handshake")
             ELSE settled

\* onHandshake() of makeTLSClient's options
HandshakeDone(settled) ==
    /\ metadata' = [version |-> tls.version]
    /\ tls' = [tls EXCEPT !.handshakeDone = TRUE]
    /\ defaultWriteRedactionMode' =
          IF tls.version = "TLS1_2" THEN "zk" ELSE defaultWriteRedactionMode
    /\ pc' = IF onHandshake = "set" THEN SettleRace(settled, "race-handshake")
             ELSE settled

\* the pull loop re-raises: evPromise rejects
Throw(who, err) ==
    /\ thrown' = [thrown EXCEPT ![who] = err]
    /\ pc' = IF who = "pull"
             THEN SettleRace([pc EXCEPT !.pull = "threw"], "race-threw")
             ELSE [pc EXCEPT ![who] = "rejected"]

CanPull ==
    /\ pc.pull = "next"
    /\ pullFromSessionAbort # "aborted"
    /\ stream # <<>>

\* onRead(packet, ctx): the server's record is appended with index -1
OnRead(pkt) ==
    /\ allPackets' = PushPacket(allPackets, pkt, -1)
    /\ twinPackets' = PushPacket(twinPackets, pkt, -1)

\* an element with an empty record header: onReady() calls
\* tls.startHandshake, which writes the client's hello; of a repeated call
\* only the call is recorded
PullReady ==
    /\ CanPull
    /\ Head(stream).kind = "ready"
    /\ stream' = Tail(stream)
    /\ tls' = [tls EXCEPT !.started = @ + 1]
    /\ push' = IF tls.started = 0
               THEN StartPush("startHandshake", "hello",
                              PlainRecord(CLIENT, HandshakeBytes),
                              PlainRecord(CLIENT, HandshakeBytes))
               ELSE push
    /\ UNCHANGED <<request, responseSlices, client, transcript, relay, pc, w,
                   pulled, receipt, tlsEnds>>

\* handleReceivedPacket on an engine that has ended: the record is dropped
PullDropped ==
    /\ CanPull
    /\ Head(stream).kind \in {"sh", "sfin", "app"}
    /\ tls.ended
    /\ stream' = Tail(stream)
    /\ pulled' = Head(stream)
    /\ pc' = [pc EXCEPT !.pull = "assign"]
    /\ UNCHANGED <<request, responseSlices, client, transcript, tls, push,
                   relay, w, receipt, tlsEnds>>

\* the server's first flight; a TLS1.2 client answers with its key exchange
PullServerHello ==
    /\ CanPull
    /\ Head(stream).kind = "sh"
    /\ ~tls.ended
    /\ stream' = Tail(stream)
    /\ pulled' = Head(stream)
    /\ OnRead(PlainRecord(SERVER, HandshakeBytes))
    /\ tls' = [tls EXCEPT !.version = Head(stream).version]
    /\ IF Head(stream).version = "TLS1_2"
       THEN /\ push' = StartPush("pull", "cke",
                                 PlainRecord(CLIENT, HandshakeBytes),
                                 PlainRecord(CLIENT, HandshakeBytes))
            /\ pc' = [pc EXCEPT !.pull = "handling"]
       ELSE /\ push' = push
            /\ pc' = [pc EXCEPT !.pull = "assign"]
    /\ UNCHANGED <<request, responseSlices, client, relay, w, receipt,
                   tlsEnds>>

ClientFinished ==
    CipherRecord(CLIENT, tls.version, "HANDSHAKE", HandshakeBytes)

\* the server's Finished: a TLS1.3 client answers with its own Finished,
\* a TLS1.2 client has sent it and the handshake is done
PullServerFinished ==
    /\ CanPull
    /\ Head(stream).kind = "sfin"
    /\ ~tls.ended
    /\ stream' = Tail(stream)
    /\ pulled' = Head(stream)
    /\ OnRead(CipherRecord(SERVER, tls.version, "HANDSHAKE", HandshakeBytes))
    /\ IF tls.version = "TLS1_3"
       THEN /\ push' = StartPush("pull", "finished",
                                 ClientFinished, ClientFinished)
            /\ pc' = [pc EXCEPT !.pull = "handling"]
            /\ UNCHANGED <<metadata, tls, defaultWriteRedactionMode>>
       ELSE /\ push' = push
            /\ HandshakeDone([pc EXCEPT !.pull = "assign"])
    /\ UNCHANGED <<request, responseSlices, sessionId, pullFromSessionAbort,
                   onHandshake, relay, w, receipt, tlsEnds>>

\* handleDataFromServer(data): the parser takes the chunk, and a complete
\* response arms the timer that calls endedHttpRequest
handleDataFromServer(last) ==
    /\ resParser' = [resParser EXCEPT !.complete = @ \/ last]
    /\ timer' = IF resParser.complete \/ last THEN "armed" ELSE timer

\* an application-data record of the server: onApplicationData(plaintext)
PullApplicationData ==
    /\ CanPull
    /\ Head(stream).kind = "app"
    /\ ~tls.ended
    /\ stream' = Tail(stream)
    /\ pulled' = Head(stream)
    /\ OnRead(CipherRecord(SERVER, tls.version, "APPLICATION_DATA",
                           ResponseBytes(Head(stream).index,
                                         Head(stream).first)))
    /\ handleDataFromServer(Head(stream).last)
    /\ pc' = [pc EXCEPT !.pull = "assign"]
    /\ UNCHANGED <<request, responseSlices, client, tls, push, relay, w,
                   waitForAllData, steps, result, thrown, tlsEnds>>

\* the engine's write inside handleReceivedPacket has returned or thrown
PullPushed ==
    /\ pc.pull = "handling"
    /\ push.owner = "pull"
    /\ push.st \in {"returned", "failed"}
    /\ IF push.st = "failed"
       THEN \* the catch block: tls.end(error), then the error is re-raised
            /\ push' = NoPush
            /\ TlsEnd(push.error)
            /\ Throw("pull", push.error)
            /\ UNCHANGED <<metadata, defaultWriteRedactionMode>>
       ELSE IF push.kind = "cke"
       THEN /\ push' = StartPush("pull", "finished",
                                 ClientFinished, ClientFinished)
            /\ UNCHANGED <<pc, thrown, tls, tlsEnds, waitForAllData, metadata,
                           defaultWriteRedactionMode>>
       ELSE IF tls.version = "TLS1_3"
       THEN /\ push' = NoPush
            /\ HandshakeDone([pc EXCEPT !.pull = "assign"])
            /\ UNCHANGED <<thrown, tlsEnds, waitForAllData>>
       ELSE /\ push' = NoPush
            /\ pc' = [pc EXCEPT !.pull = "assign"]
            /\ UNCHANGED <<thrown, tls, tlsEnds, waitForAllData, metadata,
                           defaultWriteRedactionMode>>
    /\ UNCHANGED <<request, responseSlices, sessionId, pullFromSessionAbort,
                   onHandshake, transcript, relay, stream, w, pulled, timer,
                   resParser, steps, result>>

\* an assignment that takes the server's first block for its last
AssignIndexFirst(packets, index) ==
    LET own == {i \in 1..Len(packets) : packets[i].sender = SERVER}
    IN  [packets EXCEPT ![CHOOSE i \in own : \A j \in own : i <= j].index =
                            index]

\* block = getLastBlock(SERVER); block!.index = index
AssignIndex(packets, index) ==
    [packets EXCEPT ![getLastBlock(packets, SERVER)].index = index]

PullAssign ==
    /\ pc.pull = "assign"
    /\ IF getLastBlock(allPackets, SERVER) = 0
       THEN \* block is undefined: the TypeError is caught like a stream error
            /\ TlsEnd("TypeError")
            /\ Throw("pull", "TypeError")
            /\ UNCHANGED transcript
       ELSE /\ allPackets' = AssignIndex(allPackets, pulled.index)
            /\ twinPackets' = AssignIndex(twinPackets, pulled.index)
            /\ pc' = [pc EXCEPT !.pull = "next"]
            /\ UNCHANGED <<thrown, tls, tlsEnds, waitForAllData>>
    /\ UNCHANGED <<request, responseSlices, client, push, relay, stream, w,
                   pulled, timer, resParser, steps, result>>

\* the stream is over: 'live stream ended', tls.end()
PullEnd ==
    /\ CanPull
    /\ Head(stream).kind = "end"
    /\ stream' = Tail(stream)
    /\ TlsEnd(NoError)
    /\ pc' = SettleRace([pc EXCEPT !.pull = "ended"], "race-ended")
    /\ UNCHANGED <<request, responseSlices, client, transcript, push, relay,
                   w, pulled, timer, resParser, steps, result, thrown>>

StreamError == "stream error"

\* a catch block that re-raises without ending the TLS session
PullErrorUnended ==
    /\ CanPull
    /\ Head(stream).kind = "error"
    /\ stream' = Tail(stream)
    /\ Throw("pull", StreamError)
    /\ UNCHANGED <<request, responseSlices, client, transcript, tls, push,
                   relay, w, pulled, waitForAllData, timer, resParser, steps,
                   result, tlsEnds>>

\* the stream throws an error that is not an abort: tls.end(error), re-raise
PullError ==
    /\ CanPull
    /\ Head(stream).kind = "error"
    /\ stream' = Tail(stream)
    /\ TlsEnd(StreamError)
    /\ Throw("pull", StreamError)
    /\ UNCHANGED <<request, responseSlices, client, transcript, push, relay,
                   w, pulled, timer, resParser, steps, result>>

AbortError == "The operation was aborted"

\* a catch block that treats the 'aborted' error like any other
PullAbortRaised ==
    /\ pc.pull = "next"
    /\ pullFromSessionAbort = "aborted"
    /\ TlsEnd(AbortError)
    /\ Throw("pull", AbortError)
    /\ UNCHANGED <<request, responseSlices, client, transcript, push, relay,
                   stream, w, pulled, timer, resParser, steps, result>>

\* the abort signal ends the stream with an 'aborted' error, which the
\* catch block swallows: 'live stream ended', tls.end()
PullAbort ==
    /\ pc.pull = "next"
    /\ pullFromSessionAbort = "aborted"
    /\ TlsEnd(NoError)
    /\ pc' = SettleRace([pc EXCEPT !.pull = "ended"], "race-ended")
    /\ UNCHANGED <<request, responseSlices, client, transcript, push, relay,
                   stream, w, pulled, timer, resParser, steps, result, thrown>>

\* the 100 ms timer of handleDataFromServer fires: endedHttpRequest()
TimerFire ==
    /\ timer = "armed"
    /\ timer' = "unset"
    /\ waitForAllData' = endedHttpRequest(waitForAllData, NoError)
    /\ UNCHANGED <<request, responseSlices, client, transcript, tls, push,
                   relay, stream, pc, w, pulled, resParser, steps, result,
                   thrown, tlsEnds>>

\* ----------------------------------------------------------- connect()
\* client.initialiseSession(initialiseSessionParams) returns
InitialiseSessionReturn ==
    /\ pc.connect = "initialise"
    /\ sessionId' = "session"
    /\ pullFromSessionAbort' = "armed"
    /\ relay' = [relay EXCEPT !.srv = "new"]
    /\ pc' = [pc EXCEPT !.connect = "pull"]
    /\ UNCHANGED <<request, responseSlices, metadata, onHandshake,
                   defaultWriteRedactionMode, transcript, tls, push, stream,
                   w, pulled, receipt, tlsEnds>>

\* client.initialiseSession throws
InitialiseSessionThrow ==
    /\ pc.connect = "initialise"
    /\ Throw("connect", RelayFailure)
    /\ UNCHANGED <<request, responseSlices, client, transcript, tls, push,
                   relay, stream, w, pulled, waitForAllData, timer, resParser,
                   steps, result, tlsEnds>>

\* the pull loop is started, and the race of connect() is set up only
\* in a later tick
PullFromSessionReturnUnraced ==
    /\ pc.connect = "pull"
    /\ pc' = [pc EXCEPT !.connect = "race", !.pull = "next"]
    /\ UNCHANGED <<request, responseSlices, client, transcript, tls, push,
                   relay, stream, w, pulled, receipt, tlsEnds>>

\* client.pullFromSession returns the stream: listenToDataFromServer runs
\* up to its first await, and the race registers onHandshake
PullFromSessionReturn ==
    /\ pc.connect = "pull"
    /\ onHandshake' = "set"
    /\ pc' = [pc EXCEPT !.connect = "race", !.pull = "next"]
    /\ UNCHANGED <<request, responseSlices, sessionId, pullFromSessionAbort,
                   metadata, defaultWriteRedactionMode, transcript, tls, push,
                   relay, stream, w, pulled, receipt, tlsEnds>>

HandshakeFailed == "Handshake failed"

\* a connect() that returns when the race is settled, without its test of
\* tls.isHandshakeDone()
ConnectSettledUnchecked ==
    /\ pc.connect \in {"race-handshake", "race-ended", "race-threw"}
    /\ IF pc.connect = "race-threw"
       THEN Throw("connect", thrown.pull)
       ELSE /\ pc' = [pc EXCEPT !.connect = "resolved"]
            /\ thrown' = thrown
    /\ UNCHANGED <<request, responseSlices, client, transcript, tls, push,
                   relay, stream, w, pulled, waitForAllData, timer, resParser,
                   steps, result, tlsEnds>>

\* the race is settled: connect() throws what the pull loop threw, throws
\* 'Handshake failed' when the handshake is not done, and returns otherwise
ConnectSettled ==
    /\ pc.connect \in {"race-handshake", "race-ended", "race-threw"}
    /\ IF pc.connect = "race-threw"
       THEN Throw("connect", thrown.pull)
       ELSE IF ~tls.handshakeDone
       THEN Throw("connect", HandshakeFailed)
       ELSE /\ pc' = [pc EXCEPT !.connect = "resolved"]
            /\ thrown' = thrown
    /\ UNCHANGED <<request, responseSlices, client, transcript, tls, push,
                   relay, stream, w, pulled, waitForAllData, timer, resParser,
                   steps, result, tlsEnds>>

\* ----------------------------------------------------------- write()
\* the next writeWithReveal call of writeRedactedWithKeyUpdate from the
\* place loc = [i, currentIndex, at] of its loop, empty blocks skipped
RECURSIVE KeyUpdateNext(_, _, _)
KeyUpdateNext(buf, sections, loc) ==
    IF loc.at = "block"
    THEN IF loc.i >= Len(sections)
         THEN KeyUpdateNext(buf, sections, [loc EXCEPT !.at = "tail"])
         ELSE IF Len(Slice(buf, loc.currentIndex,
                           sections[loc.i + 1].fromIndex)) > 0
         THEN [op |-> "write", from |-> loc.currentIndex,
               to |-> sections[loc.i + 1].fromIndex, reveal |-> TRUE,
               loc |-> [loc EXCEPT !.at = "redacted"]]
         ELSE KeyUpdateNext(buf, sections, [loc EXCEPT !.at = "redacted"])
    ELSE IF loc.at = "redacted"
    THEN [op |-> "write", from |-> sections[loc.i + 1].fromIndex,
          to |-> sections[loc.i + 1].toIndex, reveal |-> FALSE,
          loc |-> [i |-> loc.i + 1,
                   currentIndex |-> sections[loc.i + 1].toIndex,
                   at |-> "block"]]
    ELSE IF loc.at = "tail"
    THEN LET lastBlockStart ==
                 IF Len(sections) > 0
                 THEN sections[Len(sections)].toIndex ELSE 0
         IN  IF Len(Slice(buf, lastBlockStart, Len(buf))) > 0
             THEN [op |-> "write", from |-> lastBlockStart, to |-> Len(buf),
                   reveal |-> TRUE, loc |-> [loc EXCEPT !.at = "end"]]
             ELSE [op |-> "return", from |-> 0, to |-> 0, reveal |-> TRUE,
                   loc |-> [loc EXCEPT !.at = "end"]]
    ELSE [op |-> "return", from |-> 0, to |-> 0, reveal |-> TRUE, loc |-> loc]

LoopStart == [i |-> 0, currentIndex |-> 0, at |-> "block"]

\* tls.write(bytes): the record the engine hands to its write callback
ApplicationRecord(bytes) ==
    CipherRecord(CLIENT, tls.version, "APPLICATION_DATA", bytes)

\* tls.updateTrafficKeys(): the KeyUpdate record the engine writes
KeyUpdateRecord ==
    CipherRecord(CLIENT, tls.version, "HANDSHAKE", KeyUpdateBytes)

\* a tls.write of the buffer from its start up to the end of the span
PushSpanFromStart(call) ==
    StartPush("write", "app",
              ApplicationRecord(Slice(data, 0, call.to)),
              ApplicationRecord(Slice(twinData, 0, call.to)))

PushSpan(call) ==
    StartPush("write", "app",
              ApplicationRecord(Slice(data, call.from, call.to)),
              ApplicationRecord(Slice(twinData, call.from, call.to)))

PushKeyUpdate == StartPush("write", "keyupdate", KeyUpdateRecord, KeyUpdateRecord)

\* a writeWithReveal that rotates the keys before every span
CallWriteWithRevealRotating(call, p) ==
    /\ w' = call
    /\ IF call.op = "return"
       THEN /\ push' = NoPush
            /\ pc' = [p EXCEPT !.write = "resolved"]
       ELSE /\ push' = PushKeyUpdate
            /\ pc' = [p EXCEPT !.write = "preKeys"]

\* the loop of writeRedactedWithKeyUpdate up to the first await of its
\* next writeWithReveal(data, reveal) call, or to its return
CallWriteWithReveal(call, p) ==
    /\ w' = call
    /\ IF call.op = "return"
       THEN /\ push' = NoPush
            /\ pc' = [p EXCEPT !.write = "resolved"]
       ELSE IF call.reveal
       THEN /\ push' = PushSpan(call)
            /\ pc' = [p EXCEPT !.write = "tlsWrite"]
       ELSE /\ push' = PushKeyUpdate
            /\ pc' = [p EXCEPT !.write = "preKeys"]

\* write(data, redactedSections) up to its first await
BeginWrite(p) ==
    IF defaultWriteRedactionMode = "key-update"
    THEN CallWriteWithReveal(
             KeyUpdateNext(data, redactedSections, LoopStart), p)
    ELSE /\ w' = w
         /\ push' = StartPush("write", "app", ApplicationRecord(data),
                              ApplicationRecord(twinData))
         /\ pc' = [p EXCEPT !.write = "zkWrite"]

WriteAwaits ==
    /\ pc.write \in {"preKeys", "tlsWrite", "postKeys", "zkWrite"}
    /\ push.owner = "write"

\* the awaited engine call throws what pushToSession threw
WriteThrow ==
    /\ WriteAwaits
    /\ push.st = "failed"
    /\ push' = NoPush
    /\ Throw("write", push.error)
    /\ UNCHANGED <<request, responseSlices, client, transcript, tls, relay,
                   stream, w, pulled, waitForAllData, timer, resParser, steps,
                   result, tlsEnds>>

\* the first tls.updateTrafficKeys() has returned: tls.write(data)
WriteKeysUpdated ==
    /\ WriteAwaits
    /\ pc.write = "preKeys"
    /\ push.st = "returned"
    /\ tls' = [tls EXCEPT !.keyUpdates = @ + 1]
    /\ push' = PushSpan(w)
    /\ pc' = [pc EXCEPT !.write = "tlsWrite"]
    /\ UNCHANGED <<request, responseSlices, client, transcript, relay, stream,
                   w, pulled, receipt, tlsEnds>>

\* a writeWithReveal that marks the record Complete whatever reveal says
MarkLastPacketComplete(packets, reveal) ==
    SetReveal(packets, getLastBlock(packets, CLIENT), RevealComplete)

\* writeWithReveal after tls.write: the last client record is marked
\* Complete, or its reveal decision is deleted
MarkLastPacket(packets, reveal) ==
    SetReveal(packets, getLastBlock(packets, CLIENT),
              IF reveal THEN RevealComplete ELSE NoReveal)

\* tls.write(data) of writeWithReveal has returned
WriteMarked ==
    /\ WriteAwaits
    /\ pc.write = "tlsWrite"
    /\ push.st = "returned"
    /\ allPackets' = MarkLastPacket(allPackets, w.reveal)
    /\ twinPackets' = MarkLastPacket(twinPackets, w.reveal)
    /\ IF w.reveal
       THEN CallWriteWithReveal(
                KeyUpdateNext(data, redactedSections, w.loc), pc)
       ELSE /\ push' = PushKeyUpdate
            /\ pc' = [pc EXCEPT !.write = "postKeys"]
            /\ w' = w
    /\ UNCHANGED <<request, responseSlices, client, tls, relay, stream,
                   pulled, receipt, tlsEnds>>

\* the second tls.updateTrafficKeys() has returned: the loop goes on
WriteKeysUpdatedAgain ==
    /\ WriteAwaits
    /\ pc.write = "postKeys"
    /\ push.st = "returned"
    /\ tls' = [tls EXCEPT !.keyUpdates = @ + 1]
    /\ CallWriteWithReveal(KeyUpdateNext(data, redactedSections, w.loc), pc)
    /\ UNCHANGED <<request, responseSlices, client, transcript, relay, stream,
                   pulled, receipt, tlsEnds>>

\* a writeRedactedZk whose ZK payload is the buffer as it is
MarkLastPacketZkPlain(packets, buf, sections) ==
    SetReveal(packets, getLastBlock(packets, CLIENT), RevealZk(buf))

\* a writeRedactedZk that blanks the bytes outside the slices
MarkLastPacketZkInverted(packets, buf, sections) ==
    SetReveal(packets, getLastBlock(packets, CLIENT),
              RevealZk([p \in 1..Len(buf) |->
                           IF InSomeSlice(p - 1, sections)
                           THEN buf[p] ELSE REDACTION_CHAR_CODE]))

\* writeRedactedZk after tls.write: the last client record is marked ZK
\* with the redacted buffer
MarkLastPacketZk(packets, buf, sections) ==
    SetReveal(packets, getLastBlock(packets, CLIENT),
              RevealZk(redactSlices(buf, sections)))

\* tls.write(data) of writeRedactedZk has returned
WriteZkMarked ==
    /\ WriteAwaits
    /\ pc.write = "zkWrite"
    /\ push.st = "returned"
    /\ allPackets' = MarkLastPacketZk(allPackets, data, redactedSections)
    /\ twinPackets' = MarkLastPacketZk(twinPackets, twinData, redactedSections)
    /\ push' = NoPush
    /\ pc' = [pc EXCEPT !.write = "resolved"]
    /\ UNCHANGED <<request, responseSlices, client, tls, relay, stream, w,
                   pulled, receipt, tlsEnds>>

\* ----------------------------------------------------------- finish()
\* server blocks that keep the content-type byte of a TLS1.3 plaintext
ServerBlocksWhole(packets, version) ==
    LET idx == SelectSeq([i \in 1..Len(packets) |-> i],
                   LAMBDA i : /\ packets[i].sender = SERVER
                              /\ packets[i].type = "ciphertext"
                              /\ isApplicationData(packets[i], version))
    IN  [k \in 1..Len(idx) |->
            [plaintext |-> packets[idx[k]].plaintext, index |-> idx[k]]]

\* server blocks that lose their last byte whatever the TLS version
ServerBlocksShortened(packets, version) ==
    LET idx == SelectSeq([i \in 1..Len(packets) |-> i],
                   LAMBDA i : /\ packets[i].sender = SERVER
                              /\ packets[i].type = "ciphertext"
                              /\ isApplicationData(packets[i], version))
    IN  [k \in 1..Len(idx) |->
            [plaintext |-> DropLast(packets[idx[k]].plaintext),
             index |-> idx[k]]]

\* the blocks finish() hands to getBlocksToReveal: the server's ciphertext
\* application-data records, a TLS1.3 plaintext without its last byte
ServerBlocks(packets, version) ==
    LET idx == SelectSeq([i \in 1..Len(packets) |-> i],
                   LAMBDA i : /\ packets[i].sender = SERVER
                              /\ packets[i].type = "ciphertext"
                              /\ isApplicationData(packets[i], version))
    IN  [k \in 1..Len(idx) |->
            [plaintext |-> IF version = "TLS1_3"
                           THEN DropLast(packets[idx[k]].plaintext)
                           ELSE packets[idx[k]].plaintext,
             index |-> idx[k]]]

\* offset of block k in the concatenation of the blocks
BlockOffset(blocks, k) ==
    Len(Concat([j \in 1..k - 1 |-> blocks[j].plaintext]))

\* getBlocksToReveal(blocks, redact): the blocks that a slice returned by
\* the redaction function matches, each with its redacted plaintext
getBlocksToReveal(blocks, slices) ==
    LET shown(k) == [p \in 1..Len(blocks[k].plaintext) |->
                        InSomeSlice(BlockOffset(blocks, k) + p - 1, slices)]
        matched == SelectSeq([k \in 1..Len(blocks) |-> k],
                       LAMBDA k : TRUE \in Range(shown(k)))
    IN  [m \in 1..Len(matched) |->
            [block |-> blocks[matched[m]],
             redactedPlaintext |->
                [p \in 1..Len(blocks[matched[m]].plaintext) |->
                    IF shown(matched[m])[p]
                    THEN blocks[matched[m]].plaintext[p]
                    ELSE REDACTION_CHAR_CODE]]]

\* serverPacketsToReveal: 'all', or the blocks getBlocksToReveal returned
RevealAll == [all |-> TRUE, blocks |-> <<>>]
RevealBlocks(blocks) == [all |-> FALSE, blocks |-> blocks]

\* server reveal decisions that take 'all' for an empty list of blocks
RevealServerBlocksOnly(packets, serverPacketsToReveal) ==
    LET blocks == serverPacketsToReveal.blocks
    IN  [i \in 1..Len(packets) |->
            IF \E m \in 1..Len(blocks) : blocks[m].block.index = i
            THEN [packets[i] EXCEPT !.reveal = RevealZk(
                    blocks[CHOOSE n \in 1..Len(blocks) :
                               blocks[n].block.index = i].redactedPlaintext)]
            ELSE packets[i]]

\* server reveal decisions that take an empty list of blocks for 'all'
RevealServerAllIfEmpty(packets, serverPacketsToReveal) ==
    IF serverPacketsToReveal.all \/ serverPacketsToReveal.blocks = <<>>
    THEN [i \in 1..Len(packets) |->
            IF packets[i].sender = SERVER
            THEN [packets[i] EXCEPT !.reveal = RevealComplete]
            ELSE packets[i]]
    ELSE RevealServerBlocksOnly(packets, serverPacketsToReveal)

\* the reveal decisions of the server's records
RevealServerPackets(packets, serverPacketsToReveal) ==
    IF serverPacketsToReveal.all
    THEN [i \in 1..Len(packets) |->
            IF packets[i].sender = SERVER
            THEN [packets[i] EXCEPT !.reveal = RevealComplete]
            ELSE packets[i]]
    ELSE LET blocks == serverPacketsToReveal.blocks
         IN  [i \in 1..Len(packets) |->
                IF \E m \in 1..Len(blocks) : blocks[m].block.index = i
                THEN LET m == CHOOSE n \in 1..Len(blocks) :
                            /\ blocks[n].block.index = i
                            /\ \A o \in 1..Len(blocks) :
                                 blocks[o].block.index = i => o <= n
                     IN  [packets[i] EXCEPT !.reveal =
                            RevealZk(blocks[m].redactedPlaintext)]
                ELSE packets[i]]

\* position of the first client application-data record, Len + 1 if none
FirstClientApplicationData(packets, version) ==
    LET app == {i \in 1..Len(packets) :
                   /\ packets[i].sender = CLIENT
                   /\ isApplicationData(packets[i], version)}
    IN  IF app = {} THEN Len(packets) + 1
        ELSE CHOOSE i \in app : \A j \in app : i <= j

\* a handshake loop without its break: every client ciphertext record
RevealClientRecords(packets, mode, version) ==
    [i \in 1..Len(packets) |->
        IF packets[i].sender = CLIENT /\ packets[i].type = "ciphertext"
        THEN [packets[i] EXCEPT !.reveal =
                IF mode = "zk" THEN RevealZk(packets[i].plaintext)
                ELSE RevealComplete]
        ELSE packets[i]]

\* a handshake loop that reveals nothing
RevealNoHandshake(packets, mode, version) == packets

\* the reveal decisions of the client's handshake records: the loop over
\* the client's ciphertext records breaks at the first application data
RevealClientHandshake(packets, mode, version) ==
    [i \in 1..Len(packets) |->
        IF /\ packets[i].sender = CLIENT
           /\ packets[i].type = "ciphertext"
           /\ i < FirstClientApplicationData(packets, version)
        THEN [packets[i] EXCEPT !.reveal =
                IF mode = "zk" THEN RevealZk(packets[i].plaintext)
                ELSE RevealComplete]
        ELSE packets[i]]

\* preparePacketsForReveal(allPackets, ...): reveal material for the
\* records that carry a reveal decision
preparePacketsForReveal(packets) ==
    SelectSeq(packets, LAMBDA pkt : pkt.reveal.type # "none")

\* what the redaction function may return for the blocks: non-empty
\* slices of their concatenation, in ascending order
ResponseRedactions(blocks) ==
    IF redactResponse = "function"
    THEN {slices \in SliceLists(
                Len(Concat([k \in 1..Len(blocks) |-> blocks[k].plaintext])),
                MaxResponseSlices) :
            /\ Ascending(slices)
            /\ \A k \in 1..Len(slices) :
                    slices[k].fromIndex < slices[k].toIndex}
    ELSE {<<>>}

\* finish()'s reveal decisions for a transcript
FinishReveal(packets, slices) ==
    RevealClientHandshake(
        RevealServerPackets(packets,
            IF redactResponse = "function"
            THEN RevealBlocks(getBlocksToReveal(
                     ServerBlocks(packets, metadata.version), slices))
            ELSE RevealAll),
        defaultWriteRedactionMode, metadata.version)

NothingToCancel == "Nothing to cancel"

\* finish() without its test of the session id
BeginFinishUnchecked(p) ==
    /\ \E slices \in
          ResponseRedactions(ServerBlocks(allPackets, metadata.version)) :
          /\ responseSlices' = slices
          /\ allPackets' = FinishReveal(allPackets, slices)
          /\ twinPackets' = FinishReveal(twinPackets, slices)
    /\ pc' = [p EXCEPT !.finish = "prepare"]
    /\ thrown' = thrown

\* finish() up to its first await: the call of preparePacketsForReveal
BeginFinish(p) ==
    IF sessionId = "undefined"
    THEN /\ thrown' = [thrown EXCEPT !.finish = NothingToCancel]
         /\ pc' = [p EXCEPT !.finish = "rejected"]
         /\ UNCHANGED <<transcript, responseSlices>>
    ELSE /\ \E slices \in
               ResponseRedactions(ServerBlocks(allPackets, metadata.version)) :
               /\ responseSlices' = slices
               /\ allPackets' = FinishReveal(allPackets, slices)
               /\ twinPackets' = FinishReveal(twinPackets, slices)
         /\ pc' = [p EXCEPT !.finish = "prepare"]
         /\ thrown' = thrown

\* preparePacketsForReveal has returned: client.finaliseSession is called
FinishPrepared ==
    /\ pc.finish = "prepare"
    /\ relay' = [relay EXCEPT
                    !.revealBlocks = preparePacketsForReveal(allPackets)]
    /\ pc' = [pc EXCEPT !.finish = "finalise"]
    /\ UNCHANGED <<request, responseSlices, client, transcript, tls, push,
                   stream, w, pulled, receipt, tlsEnds>>

\* client.finaliseSession has returned the attestation: tls.end()
FinaliseSessionReturn ==
    /\ pc.finish = "finalise"
    /\ relay' = [relay EXCEPT !.finalised = TRUE]
    /\ TlsEnd(NoError)
    /\ pc' = [pc EXCEPT !.finish = "ending"]
    /\ UNCHANGED <<request, responseSlices, client, transcript, push, stream,
                   w, pulled, timer, resParser, steps, result, thrown>>

FinaliseFailure == "finalise error"

\* client.finaliseSession throws
FinaliseSessionThrow ==
    /\ pc.finish = "finalise"
    /\ Throw("finish", FinaliseFailure)
    /\ UNCHANGED <<request, responseSlices, client, transcript, tls, push,
                   relay, stream, w, pulled, waitForAllData, timer, resParser,
                   steps, result, tlsEnds>>

\* tls.end() has returned: pullFromSessionAbort?.abort(); return result
FinishReturn ==
    /\ pc.finish = "ending"
    /\ pullFromSessionAbort' =
          IF pullFromSessionAbort = "undefined" THEN "undefined" ELSE "aborted"
    /\ pc' = [pc EXCEPT !.finish = "resolved"]
    /\ UNCHANGED <<request, responseSlices, sessionId, metadata,
                   defaultWriteRedactionMode, onHandshake, transcript, tls,
                   push, relay, stream, w, pulled, receipt, tlsEnds>>

\* ------------------------------------------------------------ cancel()
\* cancel() up to its first await: the session id is tested, the pull
\* stream aborted and client.cancelSession called
BeginCancel(p) ==
    IF sessionId = "undefined"
    THEN /\ thrown' = [thrown EXCEPT !.cancel = NothingToCancel]
         /\ pc' = [p EXCEPT !.cancel = "rejected"]
         /\ UNCHANGED pullFromSessionAbort
    ELSE /\ pullFromSessionAbort' =
               IF pullFromSessionAbort = "undefined" THEN "undefined"
               ELSE "aborted"
         /\ pc' = [p EXCEPT !.cancel = "cancelSession"]
         /\ thrown' = thrown

\* the relay's answer to cancelSession: the session is closed; a session
\* that is cancelled already is answered the same way
CancelSession(r) == [r EXCEPT !.cancelled = @ + 1, !.closed = TRUE]

\* client.cancelSession has returned and cancel() forgets the session
CancelSessionReturnForgets ==
    /\ pc.cancel = "cancelSession"
    /\ relay' = CancelSession(relay)
    /\ TlsEnd(NoError)
    /\ sessionId' = "undefined"
    /\ pc' = [pc EXCEPT !.cancel = "ending"]
    /\ UNCHANGED <<request, responseSlices, pullFromSessionAbort, metadata,
                   defaultWriteRedactionMode, onHandshake, transcript, push,
                   stream, w, pulled, timer, resParser, steps, result, thrown>>

\* client.cancelSession has returned: tls.end()
CancelSessionReturn ==
    /\ pc.cancel = "cancelSession"
    /\ relay' = CancelSession(relay)
    /\ TlsEnd(NoError)
    /\ pc' = [pc EXCEPT !.cancel = "ending"]
    /\ UNCHANGED <<request, responseSlices, client, transcript, push, stream,
                   w, pulled, timer, resParser, steps, result, thrown>>

\* tls.end() has returned: cancel() returns
CancelReturn ==
    /\ pc.cancel = "ending"
    /\ pc' = [pc EXCEPT !.cancel = "resolved"]
    /\ UNCHANGED <<request, responseSlices, client, transcript, tls, push,
                   relay, stream, w, pulled, receipt, tlsEnds>>

\* ------------------------------------------------ a caller of the client
\* the caller calls connect()
CallConnect ==
    /\ pc.connect = "idle"
    /\ pc' = [pc EXCEPT !.connect = "initialise"]
    /\ UNCHANGED <<request, responseSlices, client, transcript, tls, push,
                   relay, stream, w, pulled, receipt, tlsEnds>>

\* a cancel() that tears the TLS session down before it calls the relay
CallCancelTearsDown ==
    /\ pc.cancel \in {"idle", "resolved"}
    /\ relay.cancelled < MaxCancels
    /\ BeginCancel(pc)
    /\ IF sessionId = "undefined"
       THEN UNCHANGED <<tls, tlsEnds, waitForAllData>>
       ELSE TlsEnd(NoError)
    /\ UNCHANGED <<request, responseSlices, sessionId, metadata,
                   defaultWriteRedactionMode, onHandshake, transcript,
                   push, relay, stream, w, pulled, timer,
                   resParser, steps, result>>

\* the caller calls cancel(), for the first time or after a cancel() that
\* has returned
CallCancel ==
    /\ pc.cancel \in {"idle", "resolved"}
    /\ relay.cancelled < MaxCancels
    /\ BeginCancel(pc)
    /\ UNCHANGED <<request, responseSlices, sessionId, metadata,
                   defaultWriteRedactionMode, onHandshake, transcript, tls,
                   push, relay, stream, w, pulled, waitForAllData, timer,
                   resParser, steps, result, tlsEnds>>

\* the caller calls finish()
CallFinish ==
    /\ pc.finish = "idle"
    /\ BeginFinish(pc)
    /\ UNCHANGED <<request, client, tls, push, relay, stream, w, pulled,
                   waitForAllData, timer, resParser, steps, result, tlsEnds>>

\* ------------------------------------------- generateProviderReceipt()
onStep(name) == steps' = Append(steps, name)

\* the relay error of a session closed during the write
IsSessionClosed(err) == err = SessionClosed

\* onStep('connecting'); apiClient.connect() runs up to initialiseSession
GprStart ==
    /\ pc.gpr = "start"
    /\ onStep("connecting")
    /\ pc' = [pc EXCEPT !.gpr = "connecting", !.connect = "initialise"]
    /\ UNCHANGED <<request, responseSlices, client, transcript, tls, push,
                   relay, stream, w, pulled, waitForAllData, timer, resParser,
                   result, thrown, tlsEnds>>

\* connect() has settled: onStep('sending-request-data'); apiClient.write
GprConnected ==
    /\ pc.gpr = "connecting"
    /\ pc.connect \in {"resolved", "rejected"}
    /\ IF pc.connect = "rejected"
       THEN /\ result' = thrown.connect
            /\ pc' = [pc EXCEPT !.gpr = "rejected"]
            /\ UNCHANGED <<steps, push, w>>
       ELSE /\ onStep("sending-request-data")
            /\ BeginWrite([pc EXCEPT !.gpr = "sending"])
            /\ result' = result
    /\ UNCHANGED <<request, responseSlices, client, transcript, tls, relay,
                   stream, pulled, waitForAllData, timer, resParser, thrown,
                   tlsEnds>>

\* write() has settled and the wait for the response begins without its
\* progress step
GprWrittenUnannounced ==
    /\ pc.gpr = "sending"
    /\ pc.write \in {"resolved", "rejected"}
    /\ IF pc.write = "rejected" /\ ~IsSessionClosed(thrown.write)
       THEN /\ result' = thrown.write
            /\ pc' = [pc EXCEPT !.gpr = "rejected"]
       ELSE /\ pc' = [pc EXCEPT !.gpr = "waiting"]
            /\ result' = result
    /\ UNCHANGED <<request, responseSlices, client, transcript, tls, push,
                   relay, stream, w, pulled, waitForAllData, timer, resParser,
                   steps, thrown, tlsEnds>>

\* write() has settled: a 'session is closed' precondition error is
\* swallowed, any other error is re-raised
GprWritten ==
    /\ pc.gpr = "sending"
    /\ pc.write \in {"resolved", "rejected"}
    /\ IF pc.write = "rejected" /\ ~IsSessionClosed(thrown.write)
       THEN /\ result' = thrown.write
            /\ pc' = [pc EXCEPT !.gpr = "rejected"]
            /\ steps' = steps
       ELSE /\ onStep("waiting-for-response")
            /\ pc' = [pc EXCEPT !.gpr = "waiting"]
            /\ result' = result
    /\ UNCHANGED <<request, responseSlices, client, transcript, tls, push,
                   relay, stream, w, pulled, waitForAllData, timer, resParser,
                   thrown, tlsEnds>>

\* apiClient.endTlsSession(): the TLS session is ended, without an error
endTlsSession ==
    /\ tls' = [tls EXCEPT !.ended = TRUE]
    /\ tlsEnds' = Append(tlsEnds, NoError)

\* a generateProviderReceipt that does not await waitForAllData
GprAwaitedUnblocked ==
    /\ pc.gpr = "waiting"
    /\ endTlsSession
    /\ pc' = [pc EXCEPT !.gpr = "proving"]
    /\ UNCHANGED <<request, responseSlices, client, transcript, push, relay,
                   stream, w, pulled, waitForAllData, timer, resParser, steps,
                   result, thrown>>

\* await waitForAllData has settled; apiClient.endTlsSession()
GprAwaited ==
    /\ pc.gpr = "waiting"
    /\ waitForAllData.st # "pending"
    /\ IF waitForAllData.st = "rejected"
       THEN /\ result' = waitForAllData.error
            /\ pc' = [pc EXCEPT !.gpr = "rejected"]
            /\ UNCHANGED <<tls, tlsEnds>>
       ELSE /\ endTlsSession
            /\ pc' = [pc EXCEPT !.gpr = "proving"]
            /\ result' = result
    /\ UNCHANGED <<request, responseSlices, client, transcript, push, relay,
                   stream, w, pulled, waitForAllData, timer, resParser, steps,
                   thrown>>

\* the progress callback of apiClient.getBlocksToReveal
GprProofProgress ==
    /\ pc.gpr = "proving"
    /\ Len(SelectSeq(steps, LAMBDA x : x = "generating-zk-proofs")) < MaxProofs
    /\ onStep("generating-zk-proofs")
    /\ UNCHANGED <<request, responseSlices, client, transcript, tls, push,
                   relay, stream, pc, w, pulled, waitForAllData, timer,
                   resParser, result, thrown, tlsEnds>>

\* getBlocksToReveal has returned: onStep('waiting-for-verification');
\* apiClient.finish(blocksToReveal)
GprProved ==
    /\ pc.gpr = "proving"
    /\ onStep("waiting-for-verification")
    /\ BeginFinish([pc EXCEPT !.gpr = "finishing"])
    /\ UNCHANGED <<request, client, tls, push, relay, stream, w, pulled,
                   waitForAllData, timer, resParser, result, tlsEnds>>

Attestation == "attestation"

\* finish() has settled
GprFinished ==
    /\ pc.gpr = "finishing"
    /\ pc.finish \in {"resolved", "rejected"}
    /\ result' = IF pc.finish = "rejected" THEN thrown.finish ELSE Attestation
    /\ pc' = [pc EXCEPT !.gpr = IF pc.finish = "rejected" THEN "rejected"
                                ELSE "returned"]
    /\ UNCHANGED <<request, responseSlices, client, transcript, tls, push,
                   relay, stream, w, pulled, waitForAllData, timer, resParser,
                   steps, thrown, tlsEnds>>

\* ------------------------------------------ parameters of the provider
\* 'key' in obj
HasKey(obj, key) == key \in DOMAIN obj

\* a string that a JavaScript condition takes as true
Truthy(value) == value \notin {"undefined", ""}

\* { ...obj, ...more }
Spread(obj, more) ==
    [key \in DOMAIN obj \cup DOMAIN more |->
        IF key \in DOMAIN more THEN more[key] ELSE obj[key]]

\* the v2 redactions of the v1 response selections
RECURSIVE SelectionRedactions(_, _)
SelectionRedactions(selections, useZK) ==
    IF selections = <<>> THEN <<>>
    ELSE LET rs == Head(selections)
             redaction ==
                IF ~useZK THEN <<>>
                ELSE IF Truthy(rs.xPath) \/ Truthy(rs.jsonPath)
                THEN <<[xPath |-> rs.xPath, jsonPath |-> rs.jsonPath]>>
                ELSE IF Truthy(rs.responseMatch)
                THEN <<[regex |-> rs.responseMatch]>>
                ELSE <<>>
         IN  redaction \o SelectionRedactions(Tail(selections), useZK)

\* the v2 matches of the v1 response selections
RECURSIVE SelectionMatches(_)
SelectionMatches(selections) ==
    IF selections = <<>> THEN <<>>
    ELSE LET rs == Head(selections)
         IN  (IF Truthy(rs.responseMatch)
              THEN <<[type |-> "regex", value |-> rs.responseMatch]>>
              ELSE <<>>)
             \o SelectionMatches(Tail(selections))

\* the conversion without its test for the v2 form
normaliseParamsToV2Always(p) ==
    LET selections == IF HasKey(p, "responseSelections")
                      THEN p.responseSelections ELSE <<>>
    IN  Spread(p, [responseMatches |-> SelectionMatches(selections),
                   responseRedactions |->
                       SelectionRedactions(selections,
                                           HasKey(p, "useZK") /\ p.useZK)])

normaliseParamsToV2(p) ==
    IF HasKey(p, "responseMatches") THEN p
    ELSE Spread(p, [responseMatches |-> SelectionMatches(p.responseSelections),
                    responseRedactions |->
                        SelectionRedactions(p.responseSelections,
                                            HasKey(p, "useZK") /\ p.useZK)])

\* a caller normalises its parameters, and normalises the result again
Normalise ==
    /\ normalisations < MaxNormalisations
    /\ paramsV2' = normaliseParamsToV2(paramsV2)
    /\ normalisations' = normalisations + 1
    /\ UNCHANGED <<data, redactedSections, twinData, redactResponse,
                   redactionMode, params, responseSlices, client, transcript,
                   tls, push, relay, stream, pc, w, pulled, receipt, tlsEnds>>

\* the response selections of v1 parameters
ResponseSelections ==
    [xPath : {"undefined", "//a"}, jsonPath : {"undefined", "$.a"},
     responseMatch : {"undefined", "re"}]

SelectionLists ==
    UNION {[1..n -> ResponseSelections] : n \in 0..MaxSelections}

\* with useZK left out, false and true
V1Params ==
    {Spread([url |-> "url", responseSelections |-> selections], zk) :
        selections \in SelectionLists,
        zk \in {<<>>} \cup {[useZK |-> b] : b \in BOOLEAN}}

\* v2 parameters, some of them with what is left of a v1 form
V2Params ==
    {Spread(Spread([url |-> "url", responseMatches |-> matches], redactions),
            rest) :
        matches \in {<<>>, <<[type |-> "regex", value |-> "re"]>>,
                     <<[type |-> "contains", value |-> "a"]>>},
        redactions \in {<<>>, [responseRedactions |-> <<>>],
                        [responseRedactions |-> <<[regex |-> "re"]>>]},
        rest \in {<<>>} \cup
                 {[responseSelections |-> selections, useZK |-> TRUE] :
                     selections \in [1..1 -> ResponseSelections]}}

\* ------------------------------------------------------ specifications
\* the default of the option defaultWriteRedactionMode
DefaultMode(mode) == IF mode = "undefined" THEN "key-update" ELSE mode

\* the state after makeAPITLSClient and the synchronous head of
\* generateProviderReceipt, for a request and the caller's options
ConstructSession(buf, sections, mask, redact, mode) ==
    /\ redactionMode = mode
    /\ data = buf
    /\ redactedSections = sections
    /\ twinData = TwinBuffer(buf, mask)
    /\ redactResponse = redact
    /\ responseSlices = <<>>
    /\ sessionId = "undefined"
    /\ pullFromSessionAbort = "undefined"
    /\ metadata = [version |-> "undefined"]
    /\ defaultWriteRedactionMode = DefaultMode(mode)
    /\ onHandshake = "undefined"
    /\ allPackets = <<>>
    /\ twinPackets = <<>>
    /\ tls = [version |-> "undefined", started |-> 0, handshakeDone |-> FALSE,
              ended |-> FALSE, keyUpdates |-> 0]
    /\ push = NoPush
    /\ relay = [srv |-> "idle", nextIndex |-> 0, closed |-> FALSE,
                version |-> "undefined", sent |-> 0, appReceived |-> 0,
                revealBlocks |-> <<>>, finalised |-> FALSE, cancelled |-> 0]
    /\ stream = <<>>
    /\ pc = [gpr |-> "start", connect |-> "idle", pull |-> "idle",
             write |-> "idle", finish |-> "idle", cancel |-> "idle"]
    /\ thrown = [connect |-> NoError, pull |-> NoError, write |-> NoError,
                 finish |-> NoError, cancel |-> NoError]
    /\ w = [op |-> "return", from |-> 0, to |-> 0, reveal |-> TRUE,
            loc |-> LoopStart]
    /\ pulled = ServerElement("none", -1, "undefined", FALSE)
    /\ waitForAllData = Pending
    /\ timer = "unset"
    /\ resParser = [complete |-> FALSE]
    /\ steps = <<>>
    /\ result = "pending"
    /\ tlsEnds = <<>>

\* a session with provider parameters in v2 form, which stay as they are
Construct(buf, sections, mask, redact, mode) ==
    /\ ConstructSession(buf, sections, mask, redact, mode)
    /\ params = [url |-> "url", responseMatches |-> <<>>]
    /\ paramsV2 = params
    /\ normalisations = 0

\* steps of the client that every specification takes
ClientStep ==
    \/ GprStart
    \/ InitialiseSessionReturn
    \/ PullFromSessionReturn
    \/ ConnectSettled
    \/ GprConnected
    \/ WriteKeysUpdated
    \/ WriteMarked
    \/ WriteKeysUpdatedAgain
    \/ WriteZkMarked
    \/ GprWritten
    \/ GprAwaited
    \/ GprProofProgress
    \/ GprProved
    \/ FinishPrepared
    \/ FinaliseSessionReturn
    \/ FinishReturn
    \/ GprFinished
    \/ PullReady
    \/ PullServerHello
    \/ PullServerFinished
    \/ PullApplicationData
    \/ PullPushed
    \/ PullAssign
    \/ PullAbort
    \/ TimerFire

\* steps of a relay and a server that keep the session open
RelayStep ==
    \/ RelayReady
    \/ ServerHello
    \/ ServerFinished
    \/ PushToSessionReturn

\* a session in which the relay or the server may fail at any time
SessionSections == {<<>>, <<[fromIndex |-> 1, toIndex |-> 2]>>}

Init ==
    \E sections \in SessionSections, mode \in {"key-update", "zk"},
       redact \in {"undefined", "function"} :
        Construct(Buffer(MaxLen), sections,
                  SecretPositions(Buffer(MaxLen), sections), redact, mode)

Next ==
    \/ ClientStep
    \/ RelayStep
    \/ ServerRespond
    \/ RelayEndStream
    \/ PushToSessionThrow
    \/ InitialiseSessionThrow
    \/ FinaliseSessionThrow
    \/ WriteThrow
    \/ PullDropped
    \/ PullEnd
    \/ PullError

Spec == Init /\ [][Next]_vars

\* the same sessions without a redaction function, with a relay and a server
\* that never fail
InitReveal ==
    \E sections \in SessionSections, mode \in {"key-update", "zk"} :
        Construct(Buffer(MaxLen), sections,
                  SecretPositions(Buffer(MaxLen), sections), "undefined", mode)

NextReveal ==
    \/ ClientStep
    \/ RelayStep
    \/ ServerRespond

SpecReveal == InitReveal /\ [][NextReveal]_vars

\* sessions with a redaction function and a request that is one secret span
InitRedact ==
    \E mode \in {"key-update", "zk"} :
        Construct(Buffer(MaxLen), <<[fromIndex |-> 0, toIndex |-> MaxLen]>>,
                  {}, "function", mode)

SpecRedact == InitRedact /\ [][NextReveal]_vars

\* a session with a well-behaved relay and server, for every request
InitWrite ==
    \E n \in 0..MaxLen :
        \E sections \in SliceLists(n, MaxSlices), mode \in {"key-update", "zk"} :
            Construct(Buffer(n), sections, {}, "undefined", mode)

NextWrite ==
    \/ ClientStep
    \/ RelayStep
    \/ ServerRespondAfterRequest

SpecWrite == InitWrite /\ [][NextWrite]_vars

\* the second request differs in every secret byte
TwinMasks(arr, slices) ==
    {mask \in {SecretPositions(arr, slices)} : mask # {}}

\* the same sessions, run in lockstep with a session whose request differs
\* inside the slices
InitTwin ==
    \E n \in 0..MaxLen :
        \E sections \in SliceLists(n, MaxSlices), mode \in {"key-update", "zk"} :
            \E mask \in TwinMasks(Buffer(n), sections) :
                Construct(Buffer(n), sections, mask, "undefined", mode)

SpecTwin == InitTwin /\ [][NextWrite]_vars

\* sessions of a caller that names a write mode or leaves the option out
InitMode ==
    \E sections \in SessionSections,
       mode \in {"undefined", "key-update", "zk"} :
        Construct(Buffer(MaxLen), sections,
                  SecretPositions(Buffer(MaxLen), sections), "undefined", mode)

SpecMode == InitMode /\ [][NextReveal]_vars

\* sessions with a relay that may repeat the readiness marker
NextMarkers ==
    \/ ClientStep
    \/ RelayStep
    \/ RelayReadyAgain
    \/ ServerRespond

SpecMarkers == InitReveal /\ [][NextMarkers]_vars

\* sessions whose pull stream may end at any time: the relay ends it, or
\* the owner of the client cancels
NextEnding ==
    \/ ClientStep
    \/ RelayStep
    \/ ServerRespondAfterRequest
    \/ RelayEndStream
    \/ PullEnd
    \/ PullError
    \/ CallCancel
    \/ CancelSessionReturn
    \/ CancelReturn

SpecEnding == InitReveal /\ [][NextEnding]_vars

\* sessions whose relay and server never fail and whose owner may call
\* cancel() at any time: the pull stream ends only by the abort
NextAbort ==
    \/ ClientStep
    \/ RelayStep
    \/ ServerRespondAfterRequest
    \/ CallCancel
    \/ CancelSessionReturn
    \/ CancelReturn

SpecAbort == InitReveal /\ [][NextAbort]_vars

\* sessions that prefer key-update mode, for every request
InitKeyUpdate ==
    \E n \in 0..MaxLen :
        \E sections \in SliceLists(n, MaxSlices) :
            Construct(Buffer(n), sections, {}, "undefined", "key-update")

SpecKeyUpdate == InitKeyUpdate /\ [][NextWrite]_vars

\* the server answers at any time after the first request record, with
\* one record that completes the HTTP response or does not
ServerRespondOnce ==
    /\ relay.sent = 0
    /\ ServerRespond

\* sessions in which the relay or the server may fail at any time, every
\* relay call returns or throws, the pull stream ends at last, and every
\* continuation of the client that is ready runs
NextLive ==
    \/ ClientStep
    \/ RelayStep
    \/ ServerRespondOnce
    \/ RelayEndStream
    \/ PushToSessionThrow
    \/ InitialiseSessionThrow
    \/ FinaliseSessionThrow
    \/ WriteThrow
    \/ PullEnd
    \/ PullError

\* a continuation of the client, or a relay call of connect() or finish()
\* that returns or throws
ClientRuns ==
    \/ ClientStep
    \/ InitialiseSessionThrow
    \/ FinaliseSessionThrow
    \/ WriteThrow
    \/ PullEnd
    \/ PullError

SpecLive ==
    /\ InitReveal
    /\ [][NextLive]_vars
    /\ WF_vars(ClientRuns)
    /\ WF_vars(PushToSessionReturn \/ PushToSessionThrow)
    /\ WF_vars(RelayReady)
    /\ WF_vars(RelayEndStream)

\* a caller of normaliseParamsToV2, for parameters of either form
InitParams ==
    /\ ConstructSession(<<>>, <<>>, {}, "undefined", "undefined")
    /\ params \in V1Params \cup V2Params
    /\ paramsV2 = params
    /\ normalisations = 0

NextParams == Normalise

SpecParams == InitParams /\ [][NextParams]_vars

\* sessions in which the readiness marker is in the pull stream before
\* connect() has its stream; every continuation that is ready runs
RelayReadyEarly ==
    /\ pc.connect = "pull"
    /\ RelayReady

NextEarly ==
    \/ ClientStep
    \/ RelayReadyEarly
    \/ ServerHello
    \/ ServerFinished
    \/ PushToSessionReturn
    \/ ServerRespond

SpecEarly ==
    /\ InitReveal
    /\ [][NextEarly]_vars
    /\ WF_vars(ConnectSettled)
    /\ WF_vars(GprConnected)

\* a caller that uses the client directly: connect(), cancel(), finish() in
\* any order, with a relay that may fail to initialise, to take a record
\* and to finalise
NextCaller ==
    \/ CallConnect
    \/ InitialiseSessionReturn
    \/ InitialiseSessionThrow
    \/ PullFromSessionReturn
    \/ ConnectSettled
    \/ PullReady
    \/ PullServerHello
    \/ PullServerFinished
    \/ PullPushed
    \/ PullAssign
    \/ PullAbort
    \/ RelayStep
    \/ PushToSessionThrow
    \/ CallCancel
    \/ CancelSessionReturn
    \/ CancelReturn
    \/ CallFinish
    \/ FinishPrepared
    \/ FinaliseSessionReturn
    \/ FinaliseSessionThrow
    \/ FinishReturn

SpecCaller == InitReveal /\ [][NextCaller]_vars

\* ================================================= disclosure of the request
ClientRecords(packets) ==
    {i \in 1..Len(packets) : packets[i].sender = CLIENT}

ClientApplicationData(packets) ==
    {i \in ClientRecords(packets) :
        isApplicationData(packets[i], metadata.version)}

\* the bytes of the request buffer that lie inside a RedactedSlice
SecretBytes(buf) == {buf[p] : p \in SecretPositions(buf, redactedSections)}

CarriesSecret(pkt, buf) ==
    \E j \in 1..Len(pkt.plaintext) : pkt.plaintext[j] \in SecretBytes(buf)

FinishDone == pc.finish = "resolved"

NoCompleteSecret ==
    \A i \in ClientRecords(allPackets) :
        allPackets[i].reveal.type = "complete"
            => ~CarriesSecret(allPackets[i], data)

\* C1 as the specification states it: in key-update mode, for every list of
\* RedactedSlices, no client record marked Complete carries a byte of the
\* buffer that lies inside a RedactedSlice
CompleteHidesAnySlices ==
    defaultWriteRedactionMode = "key-update" => NoCompleteSecret

\* C1: in key-update mode, for every list of disjoint ascending
\* RedactedSlices, no client record marked Complete carries a byte of the
\* buffer that lies inside a RedactedSlice, during write and after finish
CompleteHidesAscendingSlices ==
    (defaultWriteRedactionMode = "key-update" /\ Ascending(redactedSections))
        => NoCompleteSecret

\* a key-update session whose request has secret and disclosed spans, after
\* finish()
CompleteHidesWitness ==
    /\ defaultWriteRedactionMode = "key-update"
    /\ Ascending(redactedSections)
    /\ FinishDone
    /\ \E i \in ClientApplicationData(allPackets) :
            CarriesSecret(allPackets[i], data)
    /\ \E i \in ClientApplicationData(allPackets) :
            allPackets[i].reveal.type = "complete"

\* what a record discloses: the contents of a Complete record, the
\* redactedPlaintext of a ZK record
Disclosed(pkt) ==
    [type |-> pkt.reveal.type,
     bytes |-> IF pkt.reveal.type = "complete" THEN pkt.plaintext
               ELSE pkt.reveal.redactedPlaintext]

SameDisclosure ==
    /\ Len(allPackets) = Len(twinPackets)
    /\ \A i \in ClientRecords(allPackets) :
            Disclosed(allPackets[i]) = Disclosed(twinPackets[i])

\* C2 as the specification states it: two sessions whose request buffers
\* differ only inside the RedactedSlices disclose the same material, in both
\* write modes and for every list of slices
TwinsDiscloseTheSame == SameDisclosure

\* C2: two sessions whose request buffers differ only inside the
\* RedactedSlices disclose the same material: in zk mode for every list of
\* slices, in key-update mode for disjoint ascending slices
AscendingTwinsDiscloseTheSame ==
    (defaultWriteRedactionMode = "zk" \/ Ascending(redactedSections))
        => SameDisclosure

\* two sessions whose buffers differ, after finish(), with a disclosed
\* request record
TwinsWitness ==
    /\ twinData # data
    /\ FinishDone
    /\ defaultWriteRedactionMode = "zk" \/ Ascending(redactedSections)
    /\ \E i \in ClientApplicationData(allPackets) :
            allPackets[i].reveal.type # "none"

\* the redacted payload of the specification: data outside the slices,
\* filler inside
IsRedacted(redacted, buf) ==
    /\ Len(redacted) = Len(buf)
    /\ \A p \in 1..Len(buf) :
            redacted[p] = IF p \in SecretPositions(buf, redactedSections)
                          THEN REDACTION_CHAR_CODE ELSE buf[p]

\* C3: in zk mode write() sends the whole buffer as one client record marked
\* ZK, whose redactedPlaintext has the length of data, equals data outside
\* the slices and holds filler inside them; the record is never Complete
ZkWriteIsOneZkRecord ==
    defaultWriteRedactionMode = "zk" =>
        /\ \A i \in ClientApplicationData(allPackets) :
                allPackets[i].reveal.type # "complete"
        /\ pc.write = "resolved" =>
            /\ Cardinality(ClientApplicationData(allPackets)) = 1
            /\ \A i \in ClientApplicationData(allPackets) :
                /\ allPackets[i].plaintext =
                      CtxPlaintext(metadata.version, "APPLICATION_DATA", data)
                /\ allPackets[i].reveal.type = "zk"
                /\ IsRedacted(allPackets[i].reveal.redactedPlaintext, data)

\* a zk session whose buffer has bytes inside and outside the slices, after
\* finish()
ZkWriteWitness ==
    /\ defaultWriteRedactionMode = "zk"
    /\ FinishDone
    /\ SecretPositions(data, redactedSections) \notin {{}, 1..Len(data)}
    /\ \E i \in ClientApplicationData(allPackets) :
            allPackets[i].reveal.type = "zk"

\* the KeyUpdate records the client wrote
IsKeyUpdate(pkt) ==
    /\ pkt.sender = CLIENT
    /\ pkt.type = "ciphertext"
    /\ pkt.contentType = "HANDSHAKE"
    /\ Slice(pkt.plaintext, 0, 1) = KeyUpdateBytes

\* the record of a secret span: writeWithReveal(redacted, false) writes it
\* between two key updates, so an odd number of KeyUpdate records precede it
SecretSpanRecords(packets) ==
    {i \in ClientApplicationData(packets) :
        Cardinality({j \in 1..i : IsKeyUpdate(packets[j])}) % 2 = 1}

\* C4: in key-update mode the client record that carries a secret span has no
\* reveal decision, after write() and after finish(), and is not among the
\* records handed over as reveal blocks
SecretSpanHasNoDecision ==
    defaultWriteRedactionMode = "key-update" =>
        \A i \in SecretSpanRecords(allPackets) :
            /\ allPackets[i].reveal.type = "none"
            /\ \A k \in 1..Len(relay.revealBlocks) :
                  ~(/\ relay.revealBlocks[k].sender = CLIENT
                    /\ relay.revealBlocks[k].index = allPackets[i].index)

\* a key-update session with a secret span, after finish() has handed its
\* reveal blocks over
SecretSpanWitness ==
    /\ defaultWriteRedactionMode = "key-update"
    /\ FinishDone
    /\ relay.revealBlocks # <<>>
    /\ \E i \in SecretSpanRecords(allPackets) :
            CarriesSecret(allPackets[i], data)

FinishHasRevealed == pc.finish \notin {"idle", "rejected"}

HandshakeDecision(pkt) ==
    IF defaultWriteRedactionMode = "zk" THEN RevealZk(pkt.plaintext)
    ELSE RevealComplete

\* C5 as the specification states it: after finish() every client record
\* before the first client application-data record has a reveal decision
HandshakeRecordsDisclosed ==
    FinishHasRevealed =>
        \A i \in ClientRecords(allPackets) :
            i < FirstClientApplicationData(allPackets, metadata.version)
                => allPackets[i].reveal = HandshakeDecision(allPackets[i])

CiphertextHandshakeDisclosed ==
    FinishHasRevealed =>
        \A i \in ClientRecords(allPackets) :
            /\ (/\ allPackets[i].type = "ciphertext"
                /\ i < FirstClientApplicationData(allPackets,
                                                  metadata.version))
                  => allPackets[i].reveal = HandshakeDecision(allPackets[i])
            /\ allPackets[i].type = "plaintext"
                  => allPackets[i].reveal = NoReveal

FinishKeepsWriteDecisions ==
    pc'.finish # "idle" =>
        \A i \in ClientRecords(allPackets) :
            i >= FirstClientApplicationData(allPackets, metadata.version)
                => allPackets'[i].reveal = allPackets[i].reveal

\* C5: after finish() every client ciphertext record before the first client
\* application-data record is Complete in key-update mode and ZK with its
\* full plaintext in zk mode, a client record sent in plaintext has no
\* reveal decision, and finish() leaves the reveal decision of the first
\* client application-data record and of every later client record as it was
HandshakeDisclosure ==
    [](CiphertextHandshakeDisclosed) /\ [][FinishKeepsWriteDecisions]_vars

\* finish() has run on a transcript with client handshake records and
\* request records
HandshakeDisclosureWitness ==
    /\ FinishDone
    /\ \E i \in ClientRecords(allPackets) :
          /\ allPackets[i].type = "ciphertext"
          /\ i < FirstClientApplicationData(allPackets, metadata.version)
    /\ \E i \in ClientApplicationData(allPackets) :
          allPackets[i].reveal.type # "none"

\* ================================================ disclosure of the response
ServerRecords(packets) ==
    {i \in 1..Len(packets) : packets[i].sender = SERVER}

ServerApplicationData(packets) ==
    {i \in ServerRecords(packets) :
        isApplicationData(packets[i], metadata.version)}

\* the response bytes of a server application-data record
ResponsePlaintext(pkt) ==
    IF metadata.version = "TLS1_3" THEN DropLast(pkt.plaintext)
    ELSE pkt.plaintext

\* offset of record i's response bytes in the response
ResponseOffset(packets, i) ==
    Len(Concat(SelectSeq(
        [j \in 1..i - 1 |->
            IF j \in ServerApplicationData(packets)
            THEN ResponsePlaintext(packets[j]) ELSE <<>>],
        LAMBDA b : TRUE)))

\* a slice of the redaction function holds a byte of record i
Matched(packets, i) ==
    \E p \in 1..Len(ResponsePlaintext(packets[i])) :
        InSomeSlice(ResponseOffset(packets, i) + p - 1, responseSlices)

RedactedResponse(packets, i) ==
    [p \in 1..Len(ResponsePlaintext(packets[i])) |->
        IF InSomeSlice(ResponseOffset(packets, i) + p - 1, responseSlices)
        THEN ResponsePlaintext(packets[i])[p] ELSE REDACTION_CHAR_CODE]

AllServerRecordsComplete ==
    (redactResponse = "undefined" /\ FinishHasRevealed) =>
        \A i \in ServerApplicationData(allPackets) :
            allPackets[i].reveal = RevealComplete

\* finish() has run without a redaction function on a response of several
\* records
AllCompleteWitness ==
    /\ redactResponse = "undefined"
    /\ FinishDone
    /\ Cardinality(ServerApplicationData(allPackets)) >= 2

ZeroSlices ==
    /\ redactResponse = "function"
    /\ FinishHasRevealed
    /\ responseSlices = <<>>

Indices(packets, sender) ==
    LET own == SelectSeq(packets, LAMBDA pkt : pkt.sender = sender)
    IN  [k \in 1..Len(own) |-> own[k].index]

StrictlyIncreasing(seq) ==
    \A k \in 1..Len(seq) - 1 : seq[k] < seq[k + 1]

\* C9 as the specification states it: at every point the indices of each
\* sender's records, in append order, are strictly increasing
IndicesIncrease ==
    \A sender \in {CLIENT, SERVER} :
        StrictlyIncreasing(Indices(allPackets, sender))

Assigned(seq) == SelectSeq(seq, LAMBDA index : index # -1)

\* C9: at every point the assigned indices of each sender's records, in
\* append order, are strictly increasing; only the server's last record can
\* hold the placeholder -1, and only while the pull loop's iteration that
\* read it has not reached its index assignment
AssignedIndicesIncrease ==
    /\ \A sender \in {CLIENT, SERVER} :
          StrictlyIncreasing(Assigned(Indices(allPackets, sender)))
    /\ \A i \in ClientRecords(allPackets) : allPackets[i].index # -1
    /\ \A i \in ServerRecords(allPackets) :
          allPackets[i].index = -1 =>
              /\ i = getLastBlock(allPackets, SERVER)
              /\ pc.pull \in {"handling", "assign", "threw"}

\* both senders have several records with assigned indices, the server's
\* records read while the client was writing
IndicesWitness ==
    /\ pc.pull = "next"
    /\ Len(Indices(allPackets, CLIENT)) >= 3
    /\ Len(Indices(allPackets, SERVER)) >= 3
    /\ \E i \in ServerApplicationData(allPackets) :
          \E j \in ClientApplicationData(allPackets) :
              allPackets[i].index < allPackets[j].index

\* ========================================================= failed writes
GprSettled == pc.gpr \in {"returned", "rejected"}

\* C10: when the write fails with the relay's 'session is closed' error,
\* generateProviderReceipt does not reject with that error, and if the TLS
\* session ends with the stream's error it rejects with that error; any other
\* write error is what it rejects with
SessionClosedSurfacesStreamError ==
    /\ (thrown.write = SessionClosed /\ GprSettled)
          => result # SessionClosed
    /\ (thrown.write = SessionClosed /\ thrown.pull = StreamError
            /\ GprSettled)
          => (pc.gpr = "rejected" /\ result = StreamError)
    /\ (thrown.write \notin {NoError, SessionClosed}
            /\ pc.gpr \notin {"sending"})
          => (pc.gpr = "rejected" /\ result = thrown.write)

\* the write has failed with 'session is closed' and generateProviderReceipt
\* has rejected with the error of the stream's end
SessionClosedWitness ==
    /\ thrown.write = SessionClosed
    /\ thrown.pull = StreamError
    /\ pc.gpr = "rejected"
    /\ result = StreamError


\* ====================================================== the handshake race
\* the notification of the handshake reached the race of connect()
HandshakeNotified == pc.connect \in {"race-handshake", "resolved"}

SendingRequestData ==
    \E k \in 1..Len(steps) : steps[k] = "sending-request-data"

\* C11: when the readiness marker is the first element of the pull stream
\* and is there before connect() has reached its race, the completion of the
\* handshake always settles the race of connect(), connect() then resolves,
\* and the orchestrator emits sending-request-data
EarlyMarkerHandshakeNotLost ==
    /\ [](tls.handshakeDone => HandshakeNotified)
    /\ (tls.handshakeDone ~> (pc.connect = "resolved" /\ SendingRequestData))

EarlyMarkerWitness ==
    /\ tls.handshakeDone
    /\ pc.connect = "resolved"
    /\ SendingRequestData

\* ================================================= cancel() and finish()
\* a step of cancel()
CancelStep == pc'.cancel # pc.cancel

\* a step of finish()
FinishStep == pc'.finish # pc.finish

ClientPackets(packets) == SelectSeq(packets, LAMBDA pkt : pkt.sender = CLIENT)

\* C12: once a cancel() has returned, no step of a further cancel() on the
\* session throws, and none appends a client record to the transcript
SecondCancelStep ==
    (CancelStep /\ relay.cancelled >= 1)
        => /\ pc'.cancel # "rejected"
           /\ thrown'.cancel = NoError
           /\ ClientPackets(allPackets') = ClientPackets(allPackets)

CancelIsIdempotent == [][SecondCancelStep]_vars

\* the second cancel() has returned, in a session that has client records
CancelTwiceWitness ==
    /\ relay.cancelled = 2
    /\ pc.cancel = "resolved"
    /\ thrown.cancel = NoError
    /\ ClientPackets(allPackets) # <<>>

\* C13: while no initialiseSession has succeeded, the step of cancel() and
\* the step of finish() end the call with the error 'Nothing to cancel',
\* and leave the relay, the TLS engine and the transcript as they were
NoSessionStep ==
    (sessionId = "undefined" /\ (CancelStep \/ FinishStep))
        => /\ CancelStep => /\ pc'.cancel = "rejected"
                             /\ thrown'.cancel = NothingToCancel
           /\ FinishStep => /\ pc'.finish = "rejected"
                             /\ thrown'.finish = NothingToCancel
           /\ UNCHANGED <<relay, tls, tlsEnds, push, allPackets>>

NoSessionNothingToCancel == [][NoSessionStep]_vars

\* both calls have failed, one of them after an initialiseSession that threw
NoSessionWitness ==
    /\ sessionId = "undefined"
    /\ pc.cancel = "rejected"
    /\ pc.finish = "rejected"
    /\ pc.connect = "rejected"
    /\ allPackets = <<>>

\* ========================================================= the write mode
\* the write mode of a session whose handshake is done
NegotiatedMode ==
    IF metadata.version = "TLS1_2" THEN "zk" ELSE DefaultMode(redactionMode)

ModeIsNegotiated ==
    /\ tls.handshakeDone => defaultWriteRedactionMode = NegotiatedMode
    /\ ~tls.handshakeDone =>
            defaultWriteRedactionMode = DefaultMode(redactionMode)
    /\ tls.version = "TLS1_2" => tls.keyUpdates = 0

ModeIsKept == tls.handshakeDone => UNCHANGED defaultWriteRedactionMode

\* C14: after the handshake the write mode is zk in a TLS1.2 session and
\* the caller's preference (key-update when there is none) otherwise; no
\* traffic key is ever rotated in a TLS1.2 session; and no step after the
\* handshake changes the mode
WriteModeFollowsVersion == []ModeIsNegotiated /\ [][ModeIsKept]_vars

\* a TLS1.2 session of a caller who asked for key-update has written a
\* request with a secret span
WriteModeWitness ==
    /\ metadata.version = "TLS1_2"
    /\ redactionMode = "key-update"
    /\ defaultWriteRedactionMode = "zk"
    /\ redactedSections # <<>>
    /\ pc.write = "resolved"

\* ====================================================== the progress steps
\* the steps of a complete run that reports n proofs
StepsOfRun(n) ==
    <<"connecting", "sending-request-data", "waiting-for-response">>
        \o [k \in 1..n |-> "generating-zk-proofs"]
        \o <<"waiting-for-verification">>

IsPrefix(seq, whole) ==
    /\ Len(seq) <= Len(whole)
    /\ \A k \in 1..Len(seq) : seq[k] = whole[k]

Emitted(name) == \E k \in 1..Len(steps) : steps[k] = name

StepsInOrder ==
    /\ \E n \in 0..Len(steps) : IsPrefix(steps, StepsOfRun(n))
    /\ Emitted("sending-request-data") => pc.connect = "resolved"
    /\ Emitted("waiting-for-verification") =>
            pc.gpr \in {"finishing", "returned", "rejected"}

\* the step that emits waiting-for-verification starts from a state in which
\* the reveal preparation is over and finish() has not been called
VerificationBeforeFinish ==
    (~Emitted("waiting-for-verification")
     /\ Emitted("waiting-for-verification")')
        => pc.gpr = "proving" /\ pc.finish = "idle"

\* C15: the steps emitted so far are always a beginning of connecting,
\* sending-request-data, waiting-for-response, any number of
\* generating-zk-proofs, waiting-for-verification; sending-request-data is
\* there only when connect() has resolved; waiting-for-verification is
\* emitted once the reveal preparation is over and before finish() is called
ProgressStepsInOrder == []StepsInOrder /\ [][VerificationBeforeFinish]_vars

ProgressStepsWitness ==
    /\ steps = StepsOfRun(MaxProofs)
    /\ pc.gpr = "returned"

\* ================================================ normaliseParamsToV2
\* C16: after any number of calls, what normaliseParamsToV2 returns has
\* responseMatches and is what its first call returned; and for parameters
\* that have responseMatches it is the parameters themselves
NormaliseIsIdempotent ==
    normalisations >= 1 =>
        /\ HasKey(paramsV2, "responseMatches")
        /\ paramsV2 = normaliseParamsToV2(params)
        /\ HasKey(params, "responseMatches") => paramsV2 = params

\* v1 parameters with a selection that becomes a match and a redaction
\* have been normalised twice
NormaliseWitness ==
    /\ normalisations = 2
    /\ ~HasKey(params, "responseMatches")
    /\ paramsV2.responseMatches # <<>>
    /\ paramsV2.responseRedactions # <<>>


\* ===================================================== the order of writes
\* the client's last record, 0 if it has none
LastClientRecord(packets) ==
    IF ClientRecords(packets) = {} THEN 0
    ELSE CHOOSE i \in ClientRecords(packets) :
            \A j \in ClientRecords(packets) : j <= i

\* the client's last record is the record rec, and has the relay's index
LastClientRecordIs(rec) ==
    LET i == LastClientRecord(allPackets)
    IN  /\ i # 0
        /\ allPackets[i].plaintext = rec.plaintext
        /\ allPackets[i].contentType = rec.contentType
        /\ allPackets[i].index >= 0

\* a step in which write() hands a record to pushToSession
StartsWritePush ==
    /\ push' # push
    /\ push'.st = "inflight"
    /\ push'.owner = "write"

\* it follows the return of the previous round trip and the append of its
\* record
WritesAreSerialized ==
    StartsWritePush =>
        \/ push.st = "idle"
        \/ /\ push.st = "returned"
           /\ push.owner = "write"
           /\ LastClientRecordIs(push.a)

\* a step in which write() sets the reveal decision of a record
MarksRecord ==
    /\ pc.write \in {"tlsWrite", "zkWrite"}
    /\ pc'.write \notin {pc.write, "rejected"}

\* the record it changes is the client's last record, which carries the
\* bytes this write has sent, and no other record changes
MarkedRecordIsSent ==
    MarksRecord =>
        LET i == LastClientRecord(allPackets)
            sent == IF pc.write = "zkWrite" THEN data
                    ELSE Slice(data, w.from, w.to)
        IN  /\ LastClientRecordIs(ApplicationRecord(sent))
            /\ Len(allPackets') = Len(allPackets)
            /\ \A j \in 1..Len(allPackets) :
                    IF j = i
                    THEN allPackets'[j] =
                            [allPackets[j] EXCEPT !.reveal = allPackets'[j].reveal]
                    ELSE allPackets'[j] = allPackets[j]

\* C17: write() hands a record to pushToSession only when no push is
\* outstanding and the record of its previous push is the client's last
\* record; and whatever the pull loop has appended meanwhile, the record
\* whose reveal decision a write sets is the record with the bytes it sent
WritesSerializedAndMarked ==
    [][WritesAreSerialized /\ MarkedRecordIsSent]_vars

\* a write is about to mark its record when the last record of the
\* transcript is the server's, after an earlier span has been marked
InterleavedMarkWitness ==
    /\ pc.write = "tlsWrite"
    /\ push.st = "returned"
    /\ allPackets # <<>>
    /\ allPackets[Len(allPackets)].sender = SERVER
    /\ \E i \in ClientApplicationData(allPackets) :
            allPackets[i].reveal.type = "complete"

\* ============================================ where the indices come from
\* the index of the pull-stream element that delivered a response record,
\* told by the record's first byte
DeliveredBy(pkt) == pkt.plaintext[1] - 200

\* a response record has no index yet or the index of its element, and when
\* the pull loop waits for the next element no server record is without one
ServerIndicesAreTheElements ==
    /\ \A i \in ServerApplicationData(allPackets) :
            allPackets[i].index \in {-1, DeliveredBy(allPackets[i])}
    /\ pc.pull \in {"next", "ended"} =>
            \A i \in ServerRecords(allPackets) : allPackets[i].index # -1

\* a client record is appended with the index of the relay's response and
\* keeps it; a server record gets its index once, from the element that the
\* pull loop is handling
IndexStep ==
    /\ Len(ClientPackets(allPackets')) > Len(ClientPackets(allPackets)) =>
            allPackets'[Len(allPackets')].index = ResponseIndex(relay)
    /\ \A i \in ClientRecords(allPackets) :
            allPackets'[i].index = allPackets[i].index
    /\ \A i \in ServerRecords(allPackets) :
            allPackets'[i].index # allPackets[i].index =>
                /\ allPackets[i].index = -1
                /\ allPackets'[i].index = pulled.index

\* C18 as the specification states it: every client record has the index
\* of the relay's pushToSession response for it, and every server record
\* ends up with the index of the pull-stream element that delivered it,
\* never with the index of another element and never without one
IndicesAreTheRelays == []ServerIndicesAreTheElements /\ [][IndexStep]_vars

\* the TLS session has been ended, the pull loop has handed a further
\* element to the engine, and a response record has another element's index
IndexOfAnotherElementWitness ==
    /\ tls.ended
    /\ pc.pull = "next"
    /\ \E i \in ServerApplicationData(allPackets) :
            allPackets[i].index \notin {-1, DeliveredBy(allPackets[i])}

\* ================================================ the start of the handshake
\* a step that calls tls.startHandshake takes an element with an empty
\* record header off the pull stream
StartsOnMarker ==
    tls'.started # tls.started =>
        /\ stream # <<>>
        /\ Head(stream).kind = "ready"
        /\ stream' = Tail(stream)

\* C19 as the specification states it: tls.startHandshake is called only
\* when an element with an empty record header has been taken off the pull
\* stream, and at most once in a session, also when further elements with
\* an empty record header arrive
HandshakeStartedOnce == [](tls.started <= 1) /\ [][StartsOnMarker]_vars

\* the handshake has been started twice
HandshakeStartedTwiceWitness ==
    /\ tls.started = 2
    /\ pc.pull = "next"

\* ================================================ connect() and the handshake
\* request bytes that have been written: a client application-data record
\* in the transcript or on its way to the relay
RequestBytesWritten ==
    \/ \E i \in ClientRecords(allPackets) :
            allPackets[i].contentType = "APPLICATION_DATA"
    \/ push.st # "idle" /\ push.kind = "app"
    \/ pc.write # "idle"

\* C20: connect() has resolved only if the handshake is done; when the pull
\* stream has ended, normally or by abort, and the handshake is not done,
\* a settled connect() has rejected with 'Handshake failed'; and while the
\* handshake is not done no request bytes are written
ConnectNeedsHandshake ==
    /\ pc.connect = "resolved" => tls.handshakeDone
    /\ (pc.pull = "ended" /\ ~tls.handshakeDone
         /\ pc.connect \in {"resolved", "rejected"})
            => /\ pc.connect = "rejected"
               /\ thrown.connect = HandshakeFailed
    /\ ~tls.handshakeDone => ~RequestBytesWritten

\* connect() has rejected after an abort of the stream during the handshake
HandshakeFailureWitness ==
    /\ pc.pull = "ended"
    /\ pullFromSessionAbort = "aborted"
    /\ ~tls.handshakeDone
    /\ tls.started = 1
    /\ pc.connect = "rejected"
    /\ thrown.connect = HandshakeFailed
    /\ pc.gpr = "rejected"

\* ============================================== the wait for the response
\* generateProviderReceipt is past its await of waitForAllData
Finalizing == pc.gpr \in {"proving", "finishing", "returned"} \/ pc.finish # "idle"

\* the step settles waitForAllData
SettlesWait == waitForAllData.st = "pending" /\ waitForAllData'.st # "pending"

\* the step is the 100 ms timer, armed by a complete response, firing
GraceElapses == resParser.complete /\ timer = "armed" /\ timer' = "unset"

\* the step ends the TLS session, and onTlsEnd gets err
TlsEndsWith(err) == tls'.ended /\ tlsEnds' = Append(tlsEnds, err)

\* C21 as the specification states it: generateProviderReceipt is past the
\* wait for the response, preparing the reveal or finalising, only when the
\* response parser has a complete response, and the promise it waits for is
\* resolved by nothing but the grace timer of a complete response
FinalizesAfterCompleteResponse ==
    /\ [](Finalizing => resParser.complete /\ waitForAllData.st = "resolved")
    /\ [][SettlesWait /\ waitForAllData'.st = "resolved" => GraceElapses]_vars

\* C21, amended: generateProviderReceipt is past the wait for the response
\* only when waitForAllData is resolved, and waitForAllData is resolved
\* either by the grace timer of a complete response or by an end of the TLS
\* session without an error; an end with an error rejects it
FinalizesAfterResponseOrTlsEnd ==
    /\ [](Finalizing => waitForAllData.st = "resolved")
    /\ [][SettlesWait =>
            IF waitForAllData'.st = "resolved"
            THEN GraceElapses \/ TlsEndsWith(NoError)
            ELSE \E err \in {StreamError, RelayFailure, SessionClosed,
                              "TypeError"} :
                    /\ TlsEndsWith(err)
                    /\ waitForAllData' = Rejected(err)]_vars

\* the pull stream has ended normally before the response was complete,
\* and generateProviderReceipt has gone on to finaliseSession
FinalizesAfterTlsEndWitness ==
    /\ pc.finish = "finalise"
    /\ ~resParser.complete
    /\ pc.pull = "ended"
    /\ pullFromSessionAbort = "armed"
    /\ tlsEnds = <<NoError, NoError>>

\* ============================================== the abort of the pull stream
\* the pull loop takes the 'aborted' error of its stream
AbortStep ==
    /\ pc.pull = "next"
    /\ pullFromSessionAbort = "aborted"
    /\ pc'.pull # "next"

\* the loop ends the TLS session without an error and returns normally
AbortSwallowed ==
    /\ pc'.pull = "ended"
    /\ TlsEndsWith(NoError)
    /\ thrown' = thrown
    /\ waitForAllData'.st # "rejected"

\* C22 as the specification states it: the pull loop swallows the error of
\* an aborted stream, ends the TLS session without an error and returns,
\* and in a session where nothing but the caller's cancellation happens
\* neither connect() nor generateProviderReceipt ever rejects
AbortIsNeverAFailure ==
    /\ [][AbortStep => AbortSwallowed]_vars
    /\ [](pc.connect # "rejected" /\ pc.gpr # "rejected")

\* C22, amended: the pull loop swallows the error of an aborted stream, ends
\* the TLS session without an error and returns; the abort error reaches
\* neither connect() nor generateProviderReceipt nor the wait for the
\* response, but a connect() whose handshake was not done when the loop
\* returned rejects with 'Handshake failed', and so does the orchestrator
AbortSwallowedByLoop ==
    /\ [][AbortStep => AbortSwallowed]_vars
    /\ [](/\ thrown.pull = NoError
          /\ waitForAllData.st # "rejected"
          /\ \A i \in 1..Len(tlsEnds) : tlsEnds[i] = NoError
          /\ pc.connect = "rejected" =>
                /\ thrown.connect = HandshakeFailed
                /\ ~tls.handshakeDone
                /\ pc.pull = "ended"
          /\ pc.gpr = "rejected" =>
                /\ result = HandshakeFailed
                /\ pc.connect = "rejected")

\* cancel() has returned during the handshake: the loop has swallowed the
\* abort, and connect() and the orchestrator have rejected
AbortDuringHandshakeWitness ==
    /\ pc.cancel = "resolved"
    /\ pc.pull = "ended"
    /\ thrown.pull = NoError
    /\ tlsEnds = <<NoError, NoError>>
    /\ tls.started = 1
    /\ ~tls.handshakeDone
    /\ pc.gpr = "rejected"
    /\ result = HandshakeFailed

\* ================================================ the exits of the pull loop
LoopOver(p) == p.pull \in {"ended", "threw"}

\* a step of listenToDataFromServer: it takes an element off the stream or
\* moves on in its loop body
LoopStep ==
    \/ pc'.pull # pc.pull /\ pc.pull # "idle"
    \/ pc.pull = "next" /\ Len(stream') < Len(stream)

LoopExits == LoopStep /\ ~LoopOver(pc) /\ LoopOver(pc')

\* C23: the step in which the pull loop re-raises an error has ended the
\* TLS session with that error; every exit of the loop, by the end of the
\* stream, by the abort or by an error, ends the TLS session once, without
\* an error unless it re-raises; no other step of the loop ends the TLS
\* session, and a loop that is over takes no further step
LoopEndsTlsOnce ==
    /\ [][LoopExits =>
            /\ TlsEndsWith(thrown'.pull)
            /\ pc'.pull = "threw" <=> thrown'.pull # NoError
            /\ thrown'.pull # NoError => waitForAllData'.st # "pending"]_vars
    /\ [][LoopStep /\ ~LoopExits => tlsEnds' = tlsEnds]_vars
    /\ [][LoopOver(pc) => pc'.pull = pc.pull /\ thrown'.pull = thrown.pull]_vars

\* the stream has failed while the orchestrator waited for the response:
\* the TLS session was ended with the error, the loop has re-raised it and
\* generateProviderReceipt has rejected with it
StreamErrorWitness ==
    /\ pc.pull = "threw"
    /\ thrown.pull = StreamError
    /\ tlsEnds = <<StreamError>>
    /\ "waiting-for-response" \in Range(steps)
    /\ pc.gpr = "rejected"
    /\ result = StreamError

\* ======================================================= the order of cancel()
\* cancel() passes its test of the session id: the pull stream is aborted
\* and cancelSession is requested, and nothing else happens
CancelRequested ==
    (pc.cancel \in {"idle", "resolved"} /\ pc'.cancel = "cancelSession") =>
        /\ sessionId # "undefined"
        /\ pullFromSessionAbort' = "aborted"
        /\ relay' = relay
        /\ tls' = tls
        /\ tlsEnds' = tlsEnds

\* cancelSession has returned: only now cancel() ends the TLS session
CancelTornDown ==
    (pc.cancel = "cancelSession" /\ pc'.cancel # "cancelSession") =>
        /\ pc'.cancel = "ending"
        /\ pullFromSessionAbort = "aborted"
        /\ relay'.cancelled = relay.cancelled + 1
        /\ TlsEndsWith(NoError)

\* tls.end() has returned: cancel() returns and does nothing more
CancelReturned ==
    (pc.cancel = "ending" /\ pc'.cancel # "ending") =>
        /\ pc'.cancel = "resolved"
        /\ relay' = relay
        /\ tlsEnds' = tlsEnds

\* C24: cancel() on an initialised session aborts the pull stream, then
\* requests cancelSession from the relay, and ends the TLS session only in
\* the step in which cancelSession has returned; while the request is in
\* flight the stream is aborted, and a cancel() past it has been answered
\* by the relay and has ended the TLS session
CancelInOrder ==
    /\ [][CancelRequested /\ CancelTornDown /\ CancelReturned]_vars
    /\ [](pc.cancel = "cancelSession" => pullFromSessionAbort = "aborted")
    /\ [](pc.cancel \in {"ending", "resolved"} =>
            /\ pullFromSessionAbort = "aborted"
            /\ relay.cancelled >= 1
            /\ relay.closed
            /\ tls.ended)

\* cancelSession has returned and cancel() has ended the TLS session, while
\* the pull loop has not yet taken the abort
CancelOrderWitness ==
    /\ pc.cancel = "ending"
    /\ relay.cancelled = 1
    /\ pullFromSessionAbort = "aborted"
    /\ pc.pull = "next"
    /\ tlsEnds = <<NoError>>

\* ================================================== cancel() during finish()
\* finish() has passed its test of the session id and has not returned
FinishRunning == pc.finish \in {"prepare", "finalise", "ending"}

\* the step is a call of cancel()
CancelCalled ==
    /\ pc.cancel \in {"idle", "resolved"}
    /\ pc'.cancel \notin {"idle", "resolved"}

\* C25 as the specification states it: a cancel() that is called while
\* finish() runs neither aborts the pull stream nor requests cancelSession
\* from the relay, and no step of a cancel() changes where finish() stands
CancelDuringFinishIsIgnored ==
    /\ [][FinishRunning /\ CancelCalled =>
            /\ pullFromSessionAbort' = pullFromSessionAbort
            /\ pc'.cancel # "cancelSession"]_vars
    /\ [][pc'.cancel # pc.cancel => pc'.finish = pc.finish]_vars

\* finish() awaits finaliseSession with its reveal blocks handed over, the
\* pull loop still runs, and a cancel() has aborted the stream and has its
\* cancelSession request in flight
CancelDuringFinishWitness ==
    /\ pc.finish = "finalise"
    /\ pc.cancel = "cancelSession"
    /\ pullFromSessionAbort = "aborted"
    /\ relay.cancelled = 0
    /\ ~relay.closed
    /\ tls.handshakeDone
    /\ pc.connect = "resolved"

\* ============================================ the records of a key-update write
\* the records the client wrote after the handshake, in the order of the
\* transcript: KeyUpdate records and application data
ClientWrites(packets) ==
    SelectSeq(packets,
        LAMBDA pkt : /\ pkt.sender = CLIENT
                     /\ IsKeyUpdate(pkt) \/ pkt.contentType = "APPLICATION_DATA")

\* the bytes a TLS1.3 application-data record carries
Payload(pkt) == DropLast(pkt.plaintext)

\* number of key rotations before the p-th written record
RotationsBefore(ops, p) ==
    Cardinality({j \in 1..p - 1 : IsKeyUpdate(ops[j])})

\* an application-data record written under keys rotated for it alone
IsSecretWrite(ops, p) ==
    ~IsKeyUpdate(ops[p]) /\ RotationsBefore(ops, p) % 2 = 1

SecretWrites(ops) == SelectSeq([p \in 1..Len(ops) |-> p],
                               LAMBDA p : IsSecretWrite(ops, p))

\* every rotation opens or closes the bracket around one record
RotationsBracketOneRecord(ops) ==
    \A p \in 1..Len(ops) :
        /\ (IsKeyUpdate(ops[p]) /\ RotationsBefore(ops, p) % 2 = 0) =>
                p = Len(ops) \/ ~IsKeyUpdate(ops[p + 1])
        /\ IsSecretWrite(ops, p) =>
                /\ IsKeyUpdate(ops[p - 1])
                /\ p = Len(ops) \/ IsKeyUpdate(ops[p + 1])

\* C26: in key-update mode the records the client writes are, for every
\* secret span in the order of the slices, a KeyUpdate, one record with the
\* bytes of the span and a KeyUpdate, with no other client record between
\* the three; every other application-data record is written without a
\* rotation, and a write() that has returned has rotated the keys twice
\* for each slice and not once more
SecretSpanIsBracketed ==
    defaultWriteRedactionMode = "key-update" =>
        LET ops == ClientWrites(allPackets)
            secret == SecretWrites(ops)
        IN  /\ RotationsBracketOneRecord(ops)
            /\ Len(secret) <= Len(redactedSections)
            /\ \A k \in 1..Len(secret) :
                    Payload(ops[secret[k]]) =
                        Slice(data, redactedSections[k].fromIndex,
                                    redactedSections[k].toIndex)
            /\ pc.write = "resolved" =>
                    /\ Len(secret) = Len(redactedSections)
                    /\ RotationsBefore(ops, Len(ops) + 1) =
                            2 * Len(redactedSections)
                    /\ tls.keyUpdates = 2 * Len(redactedSections)

\* a write() of two secret spans with a disclosed span between them has
\* returned: seven records, four of them rotations
BracketedSpansWitness ==
    /\ defaultWriteRedactionMode = "key-update"
    /\ pc.write = "resolved"
    /\ redactedSections = <<[fromIndex |-> 0, toIndex |-> 1],
                            [fromIndex |-> 2, toIndex |-> 3]>>
    /\ Len(ClientWrites(allPackets)) = 7
    /\ SecretWrites(ClientWrites(allPackets)) = <<2, 6>>

\* ============================================ the payloads of a key-update write
\* the application-data records among the written records
ApplicationWrites(ops) ==
    SelectSeq([p \in 1..Len(ops) |-> p], LAMBDA p : ~IsKeyUpdate(ops[p]))

\* the written payloads, concatenated in write order
WrittenBytes(ops) ==
    LET app == ApplicationWrites(ops)
    IN  Concat([k \in 1..Len(app) |-> Payload(ops[app[k]])])

\* writeWithReveal has its record in the transcript and has yet to mark it
MarkPending(ops, p) == p = Len(ops) /\ pc.write = "tlsWrite"

\* C27: in key-update mode with disjoint ascending slices the payloads of
\* the records of a write(), concatenated, are a prefix of the buffer while
\* it runs and the buffer when it has returned; a record written without a
\* rotation is not empty, holds no byte of a slice and is marked Complete;
\* every slice is the payload of a record of its own
WrittenPayloadsAreTheBuffer ==
    (defaultWriteRedactionMode = "key-update" /\ Ascending(redactedSections)) =>
        LET ops == ClientWrites(allPackets)
            secret == SecretWrites(ops)
        IN  /\ IsPrefix(WrittenBytes(ops), data)
            /\ pc.write = "resolved" => WrittenBytes(ops) = data
            /\ \A p \in 1..Len(ops) :
                  (~IsKeyUpdate(ops[p]) /\ ~IsSecretWrite(ops, p)) =>
                      /\ Payload(ops[p]) # <<>>
                      /\ \A b \in Range(Payload(ops[p])) :
                            ~InSomeSlice(b - 1, redactedSections)
                      /\ ~MarkPending(ops, p) =>
                            ops[p].reveal = RevealComplete
            /\ \A k \in 1..Len(secret) :
                  /\ Payload(ops[secret[k]]) =
                        Slice(data, redactedSections[k].fromIndex,
                                    redactedSections[k].toIndex)
                  /\ ops[secret[k]].reveal = NoReveal
            /\ pc.write = "resolved" => Len(secret) = Len(redactedSections)

\* a write() of a buffer with a slice in its middle has returned: three
\* application-data records, the second one the slice
PayloadsWitness ==
    /\ defaultWriteRedactionMode = "key-update"
    /\ pc.write = "resolved"
    /\ Len(data) = MaxLen
    /\ redactedSections = <<[fromIndex |-> 1, toIndex |-> 2]>>
    /\ Len(ApplicationWrites(ClientWrites(allPackets))) = 3
    /\ WrittenBytes(ClientWrites(allPackets)) = data

\* ======================================= the blocks of the redaction function
\* the transcript positions of the records that carry the server's response
\* (their first byte is a response byte), in transcript order
ResponseRecords(packets) ==
    SelectSeq([i \in 1..Len(packets) |-> i],
        LAMBDA i : /\ packets[i].sender = SERVER
                   /\ packets[i].type = "ciphertext"
                   /\ packets[i].plaintext[1] >= 200)

\* the response bytes the server put into a record
SentBytes(pkt) == SelectSeq(pkt.plaintext, LAMBDA b : b >= 200)

\* the blocks are the response records in transcript order, a TLS1.3
\* plaintext without its last byte and a TLS1.2 plaintext as it is: in
\* both versions the response bytes of the record
BlocksAre(blocks, packets, version) ==
    LET recs == ResponseRecords(packets)
    IN  /\ Len(blocks) = Len(recs)
        /\ \A k \in 1..Len(blocks) :
              LET whole == packets[recs[k]].plaintext
              IN  /\ blocks[k].index = recs[k]
                  /\ blocks[k].plaintext =
                        IF version = "TLS1_3"
                        THEN SubSeq(whole, 1, Len(whole) - 1)
                        ELSE whole
                  /\ blocks[k].plaintext = SentBytes(packets[recs[k]])

\* finish() passes its test of the session id and calls the redaction
\* function: what it returns lies within the blocks it was handed
RedactionCalled ==
    (pc.finish = "idle" /\ pc'.finish = "prepare"
        /\ redactResponse = "function") =>
        \A k \in 1..Len(responseSlices') :
            responseSlices'[k].toIndex <=
                Len(Concat([j \in 1..Len(ResponseRecords(allPackets)) |->
                    SentBytes(allPackets[ResponseRecords(allPackets)[j]])]))

\* C28: with a response-redaction function the blocks finish() builds for
\* it are the server's ciphertext application-data records in transcript
\* order, each plaintext without its last byte in a TLS1.3 session and
\* unchanged in a TLS1.2 session, and the function is called on them
RedactionBlocksAreTheResponse ==
    /\ []((redactResponse = "function" /\ tls.handshakeDone) =>
            BlocksAre(ServerBlocks(allPackets, metadata.version),
                      allPackets, metadata.version))
    /\ [][RedactionCalled]_vars

\* finish() has called the redaction function of a TLS1.3 session on two
\* blocks, and it has returned a slice
RedactionBlocksWitness ==
    /\ redactResponse = "function"
    /\ metadata.version = "TLS1_3"
    /\ pc.finish = "prepare"
    /\ Len(ServerBlocks(allPackets, metadata.version)) = 2
    /\ responseSlices # <<>>

\* ========================================= the end of generateProviderReceipt
\* C29: when every relay call returns or throws and the pull stream ends at
\* last, generateProviderReceipt settles: it returns the attestation of a
\* finaliseSession that has returned, or rejects with an error; and it does
\* not stay in its wait for the response once the TLS session has ended
ReceiptSettles ==
    /\ <>GprSettled
    /\ [](pc.gpr = "returned" =>
            /\ result = Attestation
            /\ relay.finalised
            /\ pc.finish = "resolved")
    /\ [](pc.gpr = "rejected" => result \notin {"pending", NoError, Attestation})
    /\ [](tls.ended => waitForAllData.st # "pending")
    /\ ((pc.gpr = "waiting" /\ tls.ended) ~> pc.gpr # "waiting")

\* the pull stream has ended normally while generateProviderReceipt waited
\* for a response that is not complete, and the run has gone on and
\* returned the attestation
ReceiptAfterStreamEndWitness ==
    /\ pc.gpr = "returned"
    /\ result = Attestation
    /\ ~resParser.complete
    /\ relay.closed
    /\ pc.pull = "ended"
    /\ thrown.write = NoError

====
